---- MODULE Spec2Model ----
(***************************************************************************)
(* Model of the squirrel-lsp workspace index (src/src/workspace.rs) and of *)
(* the mod analyzers built on it (src/src/bb_support.rs).                  *)
(*                                                                         *)
(* Strings that the code slices are sequences of atoms:                    *)
(*   "S" is the text "scripts/", "N" is the text ".nut", "R" is a root     *)
(*   directory such as "/mod/", every other atom is a path component that  *)
(*   contains neither "scripts/" nor ".nut".  Concatenation of strings is  *)
(*   concatenation of sequences.                                           *)
(* Option<T> is a sequence of length 0 (None) or 1 (Some(x)).              *)
(***************************************************************************)
EXTENDS Integers, Sequences, FiniteSets, TLC

\* ------------------------------------------------------------------ bounds
\* Number of index_file calls in one run.
MaxIndexCalls == 3

\* Number of characters of a text handed to position_at and byte_offset_at.
MaxChars == 3

\* Number of leaves of a text handed to compute_semantic_tokens.
MaxLeaves == 3

\* The longest run of one character in a text handed to
\* compute_syntax_diagnostics, and the longest run of letters before it.
MaxRun == 14

MaxPad == 2

\* Number of notification handlers in one run.
MaxHandlers == 3

\* ------------------------------------------------------------- input sets
None == <<>>

Some(x) == <<x>>

\* File stems of the indexed files.
Stems == {"a", "b"}

\* Class names written on the left of "<-".
Names == {"a", "b"}

\* Method names.
Methods == {"m1", "m2"}

\* Files handed to index_file: scripts/<stem>.nut under a root, ...
ScriptFiles == {<<"R", "S", s, "N">> : s \in Stems}

\* ... one file in a nested scripts/scripts/ directory, ...
NestedFile == <<"R", "S", "S", "a", "N">>

\* ... and one file outside scripts/.
OutsideFile == <<"R", "a", "N">>

FilePaths == ScriptFiles \cup {NestedFile, OutsideFile}

\* Parent paths as written in an inherit call.
RawParents == {<<"S", "a">>, <<"S", "S", "a">>, <<"S", "b", "N">>}

\* Member sets of a table body.
MemberSets == {{}, {"m1"}}

\* What the parser finds in a text: the first inherit call (class name, raw
\* parent path, methods of the body, and whether the left-hand side is a
\* bare identifier or a dereference such as this.x), and the first
\* top-level "name <- { ... }" table.
InheritCalls ==
    [class_name : Names, parent_path : RawParents, members : MemberSets,
     lhs_identifier : {FALSE}]
        \cup [class_name : Names, parent_path : {<<"S", "a">>, <<"S", "b", "N">>},
              members : {{}}, lhs_identifier : {TRUE}]

GlobalTables == [name : Names, members : MemberSets]

Contents ==
    [inherit : {None}, table : {None}]
        \cup [inherit : {Some(c) : c \in InheritCalls}, table : {None}]
        \cup [inherit : {None}, table : {Some(t) : t \in GlobalTables}]
        \cup [inherit : {Some(c) : c \in {x \in InheritCalls :
                                            x.lhs_identifier /\ x.parent_path = <<"S", "a">>}},
              table : {Some([name |-> "a", members |-> {"m1"}])}]

\* The texts the nested file is indexed with.
NestedContents ==
    {c \in Contents :
        \/ c.inherit # None /\ c.table = None /\ c.inherit[1].members = {}
                /\ ~c.inherit[1].lhs_identifier
        \/ c.inherit = None /\ c.table = Some([name |-> "a", members |-> {"m1"}])}

\* The calls of index_file: <<file path, content>>.
IndexInputs ==
    (ScriptFiles \X Contents)
        \cup ({NestedFile} \X NestedContents)
        \cup ({OutsideFile} \X {c \in Contents : c.inherit = None /\ c.table # None
                                                  /\ c.table[1].members = {"m1"}})

\* ------------------------------------------------------------------ state
VARIABLES
    files,       \* Workspace.files: script path -> FileEntry
    globals,     \* Workspace.globals
    last_op,     \* the last Workspace operation that ran
    index_calls, \* number of index_file calls so far
    resolver,    \* the SymbolResolver run: None, or Some of the text and
                 \* the resolver after analyze
    formatter,   \* the format_document call: None, or Some of the source,
                 \* the options, the tokens, the number of tokens written,
                 \* the Formatter, and the output once the call has returned
    helpers,     \* the last call of position_at or byte_offset_at: None, or
                 \* Some of its arguments and its result
    semantic,    \* the last call of compute_semantic_tokens: None, or Some
                 \* of its text, its leaves and the tokens it returned
    syntax,      \* the last call of compute_syntax_diagnostics: None, or
                 \* Some of its text, its tree and its outcome
    documents,   \* Backend.documents: uri -> text
    documents_lock, \* the task that holds the write lock of documents
    tasks,       \* the notification handlers started so far, each with its
                 \* method, its parameters and the point it has reached
    client       \* the publishDiagnostics notifications sent to the client

\* The variables of the calls of pure functions, and of the Backend.
pure_vars == <<helpers, semantic, syntax>>

backend_vars == <<documents, documents_lock, tasks, client>>

vars == <<files, globals, last_op, index_calls, resolver, formatter,
          pure_vars, backend_vars>>

\* ---------------------------------------------------------- string helpers
RECURSIVE TrimStartMatches(_, _)
\* str::trim_start_matches(pat): removes every repetition of the prefix.
TrimStartMatches(s, pat) ==
    IF Len(s) > 0 /\ Head(s) = pat THEN TrimStartMatches(Tail(s), pat) ELSE s

RECURSIVE TrimEndMatches(_, _)
\* str::trim_end_matches(pat): removes every repetition of the suffix.
TrimEndMatches(s, pat) ==
    IF Len(s) > 0 /\ s[Len(s)] = pat
    THEN TrimEndMatches(SubSeq(s, 1, Len(s) - 1), pat)
    ELSE s

\* str::strip_prefix(pat).unwrap_or(s): removes the prefix once.
StripPrefixOr(s, pat) ==
    IF Len(s) > 0 /\ Head(s) = pat THEN Tail(s) ELSE s

normalize_script_path(path) ==
    TrimEndMatches(TrimStartMatches(path, "S"), "N")

\* Index of the first "scripts/" in the path, 0 when there is none.
FindScripts(path) ==
    IF \E i \in 1..Len(path) : path[i] = "S"
    THEN CHOOSE i \in 1..Len(path) :
            path[i] = "S" /\ \A j \in 1..(i - 1) : path[j] # "S"
    ELSE 0

extract_script_path(file_path) ==
    LET scripts_idx == FindScripts(file_path) IN
    IF scripts_idx > 0
    THEN TrimEndMatches(SubSeq(file_path, scripts_idx + 1, Len(file_path)), "N")
    ELSE <<>>

\* Path::file_stem: the last component without its extension.
file_stem(file_path) ==
    LET noext == TrimEndMatches(file_path, "N") IN
    IF Len(noext) = 0 THEN "" ELSE noext[Len(noext)]

\* ---------------------------------------------------------------- lookups
\* Workspace::get, as the key of the entry found (None when not found).
GetKey(fs, script_path) ==
    IF script_path \in DOMAIN fs
    THEN Some(script_path)
    ELSE LET normalized == normalize_script_path(script_path) IN
         IF normalized \in DOMAIN fs THEN Some(normalized) ELSE None

\* Workspace::get_mut: no exact-match attempt.
GetMutKey(fs, script_path) ==
    LET normalized == normalize_script_path(script_path) IN
    IF normalized \in DOMAIN fs THEN Some(normalized) ELSE None

contains(fs, script_path) == GetKey(fs, script_path) # None

\* HashMap::insert.
Insert(fs, key, entry) ==
    [k \in DOMAIN fs \cup {key} |-> IF k = key THEN entry ELSE fs[k]]

\* ------------------------------------------------------------- index_file
\* find_global_table: the table counts only when its name is the file stem.
find_global_table(content, stem) ==
    IF content.table # None /\ content.table[1].name = stem
    THEN content.table
    ELSE None

\* extract_globals: the first identifier child of every top-level "<-".
extract_globals(content) ==
    (IF content.inherit # None /\ content.inherit[1].lhs_identifier
     THEN {content.inherit[1].class_name} ELSE {})
        \cup (IF content.table # None THEN {content.table[1].name} ELSE {})

\* The files map after index_file(file_path, content).
IndexedFiles(fs, file_path, content) ==
    LET script_path == extract_script_path(file_path)
        table == find_global_table(content, file_stem(file_path))
    IN  IF content.inherit # None
        THEN Insert(fs, script_path,
                [file_path |-> file_path,
                 script_path |-> script_path,
                 name |-> content.inherit[1].class_name,
                 parent_path |-> Some(normalize_script_path(content.inherit[1].parent_path)),
                 parent |-> None,
                 children |-> <<>>,
                 members |-> content.inherit[1].members])
        ELSE IF table # None
        THEN Insert(fs, script_path,
                [file_path |-> file_path,
                 script_path |-> script_path,
                 name |-> table[1].name,
                 parent_path |-> None,
                 parent |-> None,
                 children |-> <<>>,
                 members |-> table[1].members])
        ELSE fs

index_file(file_path, content) ==
    /\ index_calls < MaxIndexCalls
    /\ index_calls' = index_calls + 1
    /\ last_op' = "index_file"
    /\ IF extract_script_path(file_path) = <<>>
       THEN UNCHANGED <<files, globals>>
       ELSE /\ files' = IndexedFiles(files, file_path, content)
            /\ globals' = globals \cup extract_globals(content)
    /\ UNCHANGED <<resolver, formatter, pure_vars, backend_vars>>

\* ------------------------------------------------- build_inheritance_graph
InSeq(x, s) == \E i \in 1..Len(s) : s[i] = x

\* One iteration that pushes the child without looking for it in children.
BuildStep_NoDedup(fs, script_path) ==
    IF script_path \in DOMAIN fs /\ fs[script_path].parent_path # None
    THEN LET normalized_parent == normalize_script_path(fs[script_path].parent_path[1])
         IN  IF contains(fs, normalized_parent)
             THEN LET fs1 == [fs EXCEPT ![script_path].parent = Some(normalized_parent)]
                      pm == GetMutKey(fs1, normalized_parent)
                  IN  IF pm # None
                      THEN [fs1 EXCEPT ![pm[1]].children = Append(@, script_path)]
                      ELSE fs1
             ELSE fs
    ELSE fs

\* One iteration of the loop over script_paths.
BuildStep(fs, script_path) ==
    IF script_path \in DOMAIN fs /\ fs[script_path].parent_path # None
    THEN LET normalized_parent == normalize_script_path(fs[script_path].parent_path[1])
         IN  IF contains(fs, normalized_parent)
             THEN LET fs1 == [fs EXCEPT ![script_path].parent = Some(normalized_parent)]
                      pm == GetMutKey(fs1, normalized_parent)
                  IN  IF pm # None /\ ~InSeq(script_path, fs1[pm[1]].children)
                      THEN [fs1 EXCEPT ![pm[1]].children = Append(@, script_path)]
                      ELSE fs1
             ELSE fs
    ELSE fs

RECURSIVE BuildLoop(_, _)
BuildLoop(fs, script_paths) ==
    IF script_paths = <<>>
    THEN fs
    ELSE BuildLoop(BuildStep(fs, Head(script_paths)), Tail(script_paths))

\* The orders in which a HashMap may hand out its keys.
KeyOrders(fs) ==
    {o \in [1..Cardinality(DOMAIN fs) -> DOMAIN fs] :
        \A i, j \in DOMAIN o : i # j => o[i] # o[j]}

build_inheritance_graph ==
    /\ \E script_paths \in KeyOrders(files) :
            files' = BuildLoop(files, script_paths)
    /\ last_op' = "build_inheritance_graph"
    /\ UNCHANGED <<globals, index_calls, resolver, formatter, pure_vars,
                   backend_vars>>

\* ---------------------------------------------------------- get_ancestors
\* The number of iterations after which the while loop is given up as
\* running forever: one more than the number of entries.
LoopFuel(fs) == Cardinality(DOMAIN fs) + 1

RECURSIVE AncLoop_NoVisited(_, _, _, _, _)
\* The while loop without its visited check.
AncLoop_NoVisited(fs, current_path, visited, ancestors, fuel) ==
    IF fuel = 0
    THEN [done |-> FALSE, ancestors |-> ancestors]
    ELSE LET entry == GetKey(fs, current_path) IN
         IF entry = None \/ fs[entry[1]].parent = None
         THEN [done |-> TRUE, ancestors |-> ancestors]
         ELSE LET parent_path == fs[entry[1]].parent[1]
                  parent_entry == GetKey(fs, parent_path)
              IN  IF parent_entry = None
                  THEN [done |-> TRUE, ancestors |-> ancestors]
                  ELSE AncLoop_NoVisited(fs, parent_path,
                                         visited \cup {parent_path},
                                         Append(ancestors, parent_entry[1]),
                                         fuel - 1)

RECURSIVE AncLoop(_, _, _, _, _)
\* The while loop of get_ancestors; each level is one iteration.  ancestors
\* holds the keys of the entries pushed.  done is FALSE when the loop has
\* not left after fuel iterations.
AncLoop(fs, current_path, visited, ancestors, fuel) ==
    IF fuel = 0
    THEN [done |-> FALSE, ancestors |-> ancestors]
    ELSE LET entry == GetKey(fs, current_path) IN
         IF entry = None \/ fs[entry[1]].parent = None
         THEN [done |-> TRUE, ancestors |-> ancestors]
         ELSE LET parent_path == fs[entry[1]].parent[1]
                  parent_entry == GetKey(fs, parent_path)
              IN  IF parent_path \in visited \/ parent_entry = None
                  THEN [done |-> TRUE, ancestors |-> ancestors]
                  ELSE AncLoop(fs, parent_path,
                               visited \cup {parent_path},
                               Append(ancestors, parent_entry[1]),
                               fuel - 1)

\* Workspace::get_ancestors, run for at most LoopFuel iterations.
GetAncestorsRun(fs, script_path) ==
    AncLoop(fs, script_path, {}, <<>>, LoopFuel(fs))

get_ancestors(fs, script_path) == GetAncestorsRun(fs, script_path).ancestors

\* ------------------------------------------- get_all_members / has_method
\* get_all_members without the file's own path in paths_to_check.
get_all_members_NoOwn(fs, script_path) ==
    LET ancestors == get_ancestors(fs, script_path)
        paths_to_check == [i \in 1..Len(ancestors) |-> fs[ancestors[i]].script_path]
    IN  UNION {IF GetKey(fs, paths_to_check[i]) # None
               THEN fs[GetKey(fs, paths_to_check[i])[1]].members
               ELSE {} : i \in 1..Len(paths_to_check)}

\* The names in the member map built by get_all_members.
get_all_members(fs, script_path) ==
    LET ancestors == get_ancestors(fs, script_path)
        paths_to_check ==
            <<script_path>> \o [i \in 1..Len(ancestors) |-> fs[ancestors[i]].script_path]
    IN  UNION {IF GetKey(fs, paths_to_check[i]) # None
               THEN fs[GetKey(fs, paths_to_check[i])[1]].members
               ELSE {} : i \in 1..Len(paths_to_check)}

has_method(fs, script_path, method_name) ==
    method_name \in get_all_members(fs, script_path)

\* Workspace::has_member, the lookup validate_hook_methods calls: true iff
\* the name is among the file's own members or an ancestor's members.
has_member(fs, script_path, member_name) ==
    has_method(fs, script_path, member_name)

\* ---------------------------------------------------- analyze_inheritance
\* A diagnostic: its source, its code, and the position it is reported at
\* (the index of the member access for a hook's method error, else 0).
Diagnostic(source, code, at) == [source |-> source, code |-> code, at |-> at]

validate_parent_path(fs, inherit) ==
    LET lookup_path == StripPrefixOr(inherit.parent_path, "S") IN
    IF GetKey(fs, lookup_path) = None
    THEN <<Diagnostic("squirrel-inherit", "parent-path-not-found", 0)>>
    ELSE <<>>

check_circular_inheritance(fs, inherit) ==
    LET class_name == inherit.class_name
        lookup_path == StripPrefixOr(inherit.parent_path, "S")
        parent_entry == GetKey(fs, lookup_path)
    IN  IF parent_entry # None
        THEN LET ancestors == get_ancestors(fs, lookup_path) IN
             IF fs[parent_entry[1]].name = class_name
             THEN <<Diagnostic("squirrel-inherit", "circular-inheritance", 0)>>
             ELSE IF \E i \in 1..Len(ancestors) : fs[ancestors[i]].name = class_name
             THEN <<Diagnostic("squirrel-inherit", "circular-inheritance", 0)>>
             ELSE <<>>
        ELSE <<>>

RECURSIVE analyze_inheritance(_, _)
\* inherits: the inherit calls of the analyzed text, in source order.
analyze_inheritance(fs, inherits) ==
    IF inherits = <<>>
    THEN <<>>
    ELSE validate_parent_path(fs, Head(inherits))
            \o check_circular_inheritance(fs, Head(inherits))
            \o analyze_inheritance(fs, Tail(inherits))

\* ----------------------------------------------------------- analyze_hooks
HookTypes == {"Exact", "Base", "Descendants", "NewObject", "NewObjectOnce"}

validate_hook_path(fs, hook) ==
    IF GetKey(fs, hook.target_path) # None
    THEN <<>>
    ELSE <<Diagnostic("squirrel-bb-hook", "hook-path-not-found", 0)>>

RECURSIVE AccessLoop_NoSuperName(_, _, _, _)
\* The loop over the accesses without the SuperName exemption.
AccessLoop_NoSuperName(fs, hook, param_name, i) ==
    IF i > Len(hook.accesses)
    THEN <<>>
    ELSE LET access == hook.accesses[i] IN
         (IF /\ access.base = param_name
             /\ ~has_member(fs, hook.target_path, access.member_name)
          THEN <<Diagnostic("squirrel-bb-hook", "method-not-found", i)>>
          ELSE <<>>)
            \o AccessLoop_NoSuperName(fs, hook, param_name, i + 1)

RECURSIVE AccessLoop(_, _, _, _)
\* The loop of validate_hook_methods over the member accesses, from the
\* i-th on.
AccessLoop(fs, hook, param_name, i) ==
    IF i > Len(hook.accesses)
    THEN <<>>
    ELSE LET access == hook.accesses[i] IN
         (IF /\ access.base = param_name
             /\ access.member_name # "SuperName"
             /\ ~has_member(fs, hook.target_path, access.member_name)
          THEN <<Diagnostic("squirrel-bb-hook", "method-not-found", i)>>
          ELSE <<>>)
            \o AccessLoop(fs, hook, param_name, i + 1)

validate_hook_methods(fs, hook) ==
    IF GetKey(fs, hook.target_path) = None
    THEN <<>>
    ELSE IF hook.hook_param_name = None
    THEN <<>>
    ELSE AccessLoop(fs, hook, hook.hook_param_name[1], 1)

validate_hook_type(fs, hook) ==
    LET target_entry == GetKey(fs, hook.target_path) IN
    IF target_entry = None
    THEN <<>>
    ELSE LET has_children == fs[target_entry[1]].children # <<>> IN
         IF hook.hook_type = "Exact" /\ has_children
         THEN <<Diagnostic("squirrel-bb-hook", "hook-type-suggestion", 0)>>
         ELSE IF hook.hook_type = "Descendants" /\ ~has_children
         THEN <<Diagnostic("squirrel-bb-hook", "hook-type-no-descendants", 0)>>
         ELSE <<>>

RECURSIVE analyze_hooks(_, _)
\* hooks: the hook calls of the analyzed text, in source order.
analyze_hooks(fs, hooks) ==
    IF hooks = <<>>
    THEN <<>>
    ELSE validate_hook_path(fs, Head(hooks))
            \o validate_hook_methods(fs, Head(hooks))
            \o validate_hook_type(fs, Head(hooks))
            \o analyze_hooks(fs, Tail(hooks))

\* ============================================================ SymbolResolver
\* ------------------------------------------------------------ syntax trees
\* A tree_sitter node: its kind, its text (kept for identifiers only), the
\* field name it has in its parent, and its children in source order.  A
\* node is named by its path, the child indices that lead to it from the
\* root; a path is also the node's range in the text.
Tok(k) == [kind |-> k, text |-> "", field |-> "", children |-> <<>>]

Id(n) == [kind |-> "identifier", text |-> n, field |-> "", children |-> <<>>]

Node(k, ch) == [kind |-> k, text |-> "", field |-> "", children |-> ch]

Field(f, n) == [n EXCEPT !.field = f]

RECURSIVE NodeAt(_, _)
NodeAt(root, path) ==
    IF path = <<>> THEN root ELSE NodeAt(root.children[Head(path)], Tail(path))

RECURSIVE PathsOf(_, _)
\* The paths of all nodes of the tree below the node at path.
PathsOf(node, path) ==
    {path} \cup UNION {PathsOf(node.children[i], Append(path, i)) :
                            i \in 1..Len(node.children)}

\* The members of BUILTINS that the analyzed texts use.
BUILTINS == {"print", "type", "this", "inherit"}

\* ---------------------------------------------------------- ResolverContext
\* scope is not a field of the code's struct: it names the node whose
\* analysis created the context, so that properties can speak of scopes.
ResolverContext_new ==
    [locals |-> {}, declarations |-> <<>>, references |-> {},
     has_parent |-> FALSE, scope |-> <<>>]

add_declaration(ctx, name, range, kind) ==
    [ctx EXCEPT !.locals = @ \cup {name},
                !.declarations = Append(@, [name |-> name, range |-> range,
                                            kind |-> kind])]

record_reference(ctx, name) == [ctx EXCEPT !.references = @ \cup {name}]

\* merge_references that carries nothing into the parent.
merge_references_None(ctx, child_ctx) == ctx

merge_references(ctx, child_ctx) ==
    [ctx EXCEPT !.references = @ \cup (child_ctx.references \cap ctx.locals)]

child(ctx, scope) ==
    [locals |-> ctx.locals, declarations |-> <<>>, references |-> {},
     has_parent |-> ctx.has_parent, scope |-> scope]

\* --------------------------------------------------------- SymbolResolver
\* The resolver: known_globals and diagnostics are the struct's fields;
\* declared and checked record every add_declaration and every identifier
\* that check_identifier did not skip, with the context they met.
SymbolResolver_new(globals_opt) ==
    [known_globals |-> globals_opt, diagnostics |-> <<>>,
     declared |-> <<>>, checked |-> <<>>]

\* Index of the first child of kind "identifier", 0 when there is none.
find_first_identifier(node) ==
    LET is == {i \in 1..Len(node.children) : node.children[i].kind = "identifier"}
    IN  IF is = {} THEN 0 ELSE CHOOSE i \in is : \A j \in is : i <= j

find_declaration_name(node) == find_first_identifier(node)

is_syntax_token(kind) ==
    kind \in {"(", ")", "{", "}", "[", "]", ";", ",", ".", ":", "for",
              "foreach", "while", "if", "else", "in", "do"}

\* node is the child number i of parent.
should_skip_identifier(node, parent, i) ==
    \/ /\ parent.kind \in {"local_declaration", "var_statement",
                           "const_declaration", "function_declaration",
                           "class_declaration", "parameter", "table_slot",
                           "enum_declaration"}
       /\ find_first_identifier(parent) = i
    \/ /\ parent.kind = "deref_expression"
       /\ i > 1
       /\ parent.children[i - 1].kind \in {".", "::"}
    \/ parent.kind = "global_variable"
    \/ /\ parent.kind = "update_expression"
       \* is_first becomes true at the node itself, whatever its position
       /\ \E j \in 1..Len(parent.children) : parent.children[j].kind = "<-"

is_function_call(node, parent, i) ==
    /\ parent.kind = "call_expression"
    /\ LET ks == {j \in 1..Len(parent.children) :
                    parent.children[j].kind \in {"identifier", "call_args"}}
       IN  /\ ks # {}
           /\ LET k == CHOOSE j \in ks : \A l \in ks : j <= l
              IN  parent.children[k].kind = "identifier" /\ k = i

is_inherit_call(node) ==
    \E i \in 1..Len(node.children) :
        LET c == node.children[i]
        IN  \/ c.kind = "identifier" /\ c.text = "inherit"
            \/ /\ c.kind = "deref_expression"
               /\ LET is == {j \in 1..Len(c.children) :
                                c.children[j].kind = "identifier"}
                  IN  /\ is # {}
                      /\ c.children[CHOOSE j \in is : \A l \in is : l <= j].text
                            = "inherit"

extract_slot_name(node) ==
    LET ks == {j \in 1..Len(node.children) :
                \/ node.children[j].kind = "identifier"
                \/ /\ node.children[j].kind = "function_declaration"
                   /\ find_first_identifier(node.children[j]) # 0}
    IN  IF ks = {} THEN None
        ELSE LET c == node.children[CHOOSE j \in ks : \A l \in ks : j <= l]
             IN  IF c.kind = "identifier" THEN Some(c.text)
                 ELSE Some(c.children[find_first_identifier(c)].text)

\* extract_table_slot_names that stops after the first slot.
extract_table_slot_names_First(node) ==
    UNION {LET slots == {l \in 1..Len(node.children[i].children) :
                            node.children[i].children[l].kind = "table_slot"}
               n == IF slots = {} THEN None
                    ELSE extract_slot_name(node.children[i].children[
                            CHOOSE l \in slots : \A k \in slots : l <= k])
           IN  IF n = None THEN {} ELSE {n[1]} :
            i \in {l \in 1..Len(node.children) :
                    node.children[l].kind = "table_slots"}}

extract_table_slot_names(node) ==
    UNION {UNION {LET n == extract_slot_name(node.children[i].children[j])
                  IN  IF n = None THEN {} ELSE {n[1]} :
                    j \in {l \in 1..Len(node.children[i].children) :
                            node.children[i].children[l].kind = "table_slot"}} :
            i \in {l \in 1..Len(node.children) :
                    node.children[l].kind = "table_slots"}}

Undeclared(name, range) ==
    [range |-> range, severity |-> "ERROR",
     message |-> <<"Undeclared variable", name>>]

\* check_identifier without the look at the workspace globals.
check_identifier_NoGlobals(self, ctx, node, parent, path) ==
    LET name == node.text
        i == path[Len(path)]
        seen == [self EXCEPT !.checked = Append(@,
                    [at |-> path, name |-> name, scope |-> ctx.scope,
                     locals |-> ctx.locals, has_parent |-> ctx.has_parent])]
    IN  IF should_skip_identifier(node, parent, i)
        THEN [self |-> self, ctx |-> ctx]
        ELSE IF name \in BUILTINS
        THEN [self |-> seen, ctx |-> ctx]
        ELSE IF name \in ctx.locals
        THEN [self |-> seen, ctx |-> record_reference(ctx, name)]
        ELSE IF ctx.has_parent /\ is_function_call(node, parent, i)
        THEN [self |-> seen, ctx |-> ctx]
        ELSE [self |-> [seen EXCEPT !.diagnostics =
                            Append(@, Undeclared(name, path))],
              ctx |-> ctx]

check_identifier(self, ctx, node, parent, path) ==
    LET name == node.text
        i == path[Len(path)]
        seen == [self EXCEPT !.checked = Append(@,
                    [at |-> path, name |-> name, scope |-> ctx.scope,
                     locals |-> ctx.locals, has_parent |-> ctx.has_parent])]
    IN  IF should_skip_identifier(node, parent, i)
        THEN [self |-> self, ctx |-> ctx]
        ELSE IF name \in BUILTINS
        THEN [self |-> seen, ctx |-> ctx]
        ELSE IF name \in ctx.locals
        THEN [self |-> seen, ctx |-> record_reference(ctx, name)]
        ELSE IF self.known_globals # None /\ name \in self.known_globals[1]
        THEN [self |-> seen, ctx |-> ctx]
        ELSE IF ctx.has_parent /\ is_function_call(node, parent, i)
        THEN [self |-> seen, ctx |-> ctx]
        ELSE [self |-> [seen EXCEPT !.diagnostics =
                            Append(@, Undeclared(name, path))],
              ctx |-> ctx]

\* report_unused_variables that gives every declaration warning severity.
report_unused_variables_AllWarning(self, ctx) ==
    LET unused == SelectSeq(ctx.declarations,
                            LAMBDA d : d.name \notin ctx.references)
        Report(d) ==
            [range |-> d.range, severity |-> "WARNING",
             message |-> <<"Unused variable", d.name>>]
    IN  [self EXCEPT !.diagnostics = @ \o [i \in 1..Len(unused) |-> Report(unused[i])]]

report_unused_variables(self, ctx) ==
    LET unused == SelectSeq(ctx.declarations,
                            LAMBDA d : d.name \notin ctx.references)
        Report(d) ==
            [range |-> d.range,
             severity |-> IF d.kind = "Parameter" THEN "HINT" ELSE "WARNING",
             message |-> <<"Unused variable", d.name>>]
    IN  [self EXCEPT !.diagnostics = @ \o [i \in 1..Len(unused) |-> Report(unused[i])]]

\* add_declaration on the context, noted in the resolver's record.
Declare(self, ctx, name, range, kind) ==
    [self |-> [self EXCEPT !.declared = Append(@,
                    [name |-> name, range |-> range, kind |-> kind,
                     scope |-> ctx.scope])],
     ctx |-> add_declaration(ctx, name, range, kind)]

\* TLC evaluates the arguments of an operator only when they are used;
\* Evaluated(r) is true of every r and makes TLC evaluate r on the spot, so
\* that the statements of the code are evaluated one after the other.
Evaluated(r) == r = r

\* Index of the first child with the field name f, 0 when there is none.
child_by_field_name(node, f) ==
    LET is == {i \in 1..Len(node.children) : node.children[i].field = f}
    IN  IF is = {} THEN 0 ELSE CHOOSE i \in is : \A j \in is : i <= j

RECURSIVE analyze_node(_, _, _, _, _), NodeLoop(_, _, _, _),
          analyze_function(_, _, _, _), ParameterLoop(_, _, _, _),
          ParametersLoop(_, _, _, _), BodyLoop(_, _, _, _),
          ExpressionBodyLoop(_, _, _, _),
          analyze_block_inner(_, _, _, _, _), analyze_block(_, _, _, _),
          analyze_block_statements(_, _, _, _), BlockLoop(_, _, _, _),
          analyze_table(_, _, _, _), TableLoop(_, _, _, _, _),
          SlotsLoop(_, _, _, _, _), analyze_table_slot(_, _, _, _),
          SlotLoop(_, _, _, _),
          analyze_inherit_call(_, _, _, _), InheritLoop(_, _, _, _),
          ArgsLoop(_, _, _, _),
          analyze_declaration(_, _, _, _), DeclarationLoop(_, _, _, _),
          analyze_foreach(_, _, _, _), ForeachLoop(_, _, _, _),
          analyze_for(_, _, _, _), ForDeclLoop(_, _, _, _),
          ForLoop(_, _, _, _),
          analyze_try(_, _, _, _), TryLoop(_, _, _, _),
          analyze_catch(_, _, _, _), CatchDeclLoop(_, _, _, _),
          CatchLoop(_, _, _, _)

\* Every operator below takes the resolver (self) and a context and gives
\* back both as they are after the call: [self |-> ..., ctx |-> ...].  The
\* ...Loop operators are the for loops over node.children: XLoop(start, ..,
\* i) is the loop's state after the first i children, started from the
\* resolver and context of the record start.
State(self, ctx) == [self |-> self, ctx |-> ctx]

\* report_unused_variables on the resolver and context of r, and the end
\* of a scope: the unused declarations of the scope's context r.ctx are
\* reported and its references are merged into the parent's.
ReportUnused(r) ==
    CASE Evaluated(r) -> report_unused_variables(r.self, r.ctx)

ScopeEnd(parent_ctx, r) ==
    CASE Evaluated(r) ->
        [self |-> ReportUnused(r),
         ctx |-> merge_references(parent_ctx, r.ctx)]

analyze_node(self, ctx, node, parent, path) ==
    CASE node.kind \in {"function_declaration", "lambda_expression",
                        "anonymous_function"} ->
            analyze_function(self, ctx, node, path)
      [] node.kind = "table" ->
            [self |-> analyze_table(self, ctx, node, path), ctx |-> ctx]
      [] node.kind = "block" -> analyze_block(self, ctx, node, path)
      [] node.kind = "for_statement" -> analyze_for(self, ctx, node, path)
      [] node.kind = "foreach_statement" ->
            analyze_foreach(self, ctx, node, path)
      [] node.kind = "try_statement" -> analyze_try(self, ctx, node, path)
      [] node.kind = "catch_statement" -> analyze_catch(self, ctx, node, path)
      [] node.kind = "call_expression" /\ is_inherit_call(node) ->
            analyze_inherit_call(self, ctx, node, path)
      [] node.kind \in {"local_declaration", "var_statement"} ->
            analyze_declaration(self, ctx, node, path)
      [] node.kind = "identifier" ->
            check_identifier(self, ctx, node, parent, path)
      [] OTHER -> NodeLoop(State(self, ctx), node, path, Len(node.children))

NodeLoop(start, node, path, i) ==
    IF i = 0 THEN start
    ELSE LET prev == NodeLoop(start, node, path, i - 1)
         IN  CASE Evaluated(prev) ->
                analyze_node(prev.self, prev.ctx, node.children[i], node,
                             Append(path, i))

\* The parameters of one "parameters" node.
ParameterLoop(start, node, path, i) ==
    IF i = 0 THEN start
    ELSE LET prev == ParameterLoop(start, node, path, i - 1)
             param == node.children[i]
             ident == find_first_identifier(param)
         IN  CASE Evaluated(prev) ->
                IF param.kind = "parameter" /\ ident # 0
                THEN Declare(prev.self, prev.ctx, param.children[ident].text,
                             Append(path, i) \o <<ident>>, "Parameter")
                ELSE prev

ParametersLoop(start, node, path, i) ==
    IF i = 0 THEN start
    ELSE LET prev == ParametersLoop(start, node, path, i - 1)
         IN  CASE Evaluated(prev) ->
                IF node.children[i].kind = "parameters"
                THEN ParameterLoop(prev, node.children[i], Append(path, i),
                                   Len(node.children[i].children))
                ELSE prev

BodyLoop(start, node, path, i) ==
    IF i = 0 THEN start
    ELSE LET prev == BodyLoop(start, node, path, i - 1)
         IN  CASE Evaluated(prev) ->
                IF node.children[i].kind = "block"
                THEN analyze_block_inner(prev.self, prev.ctx, node.children[i],
                                         Append(path, i), TRUE)
                ELSE prev

ExpressionBodyLoop(start, node, path, i) ==
    IF i = 0 THEN start
    ELSE LET prev == ExpressionBodyLoop(start, node, path, i - 1)
         IN  CASE Evaluated(prev) ->
                IF node.children[i].kind \notin {"parameters", "@", "(", ")"}
                THEN analyze_node(prev.self, prev.ctx, node.children[i], node,
                                  Append(path, i))
                ELSE prev

\* The loop over the expression body is run only when no block was found
\* and the node is a lambda.
analyze_function(self, parent_ctx, node, path) ==
    LET found_body == \E i \in 1..Len(node.children) :
                            node.children[i].kind = "block"
    IN  ScopeEnd(parent_ctx,
            ExpressionBodyLoop(
                BodyLoop(
                    ParametersLoop(State(self, child(parent_ctx, path)),
                                   node, path, Len(node.children)),
                    node, path, Len(node.children)),
                node, path,
                IF ~found_body /\ node.kind = "lambda_expression"
                THEN Len(node.children) ELSE 0))

analyze_block_inner(self, parent_ctx, node, path, is_function_body) ==
    IF is_function_body
    THEN analyze_block_statements(self, parent_ctx, node, path)
    ELSE ScopeEnd(parent_ctx,
            analyze_block_statements(self, child(parent_ctx, path),
                                     node, path))

analyze_block(self, parent_ctx, node, path) ==
    analyze_block_inner(self, parent_ctx, node, path, FALSE)

analyze_block_statements(self, ctx, node, path) ==
    BlockLoop(State(self, ctx), node, path, Len(node.children))

BlockLoop(start, node, path, i) ==
    IF i = 0 THEN start
    ELSE LET prev == BlockLoop(start, node, path, i - 1)
             self == prev.self
             ctx == prev.ctx
             c == node.children[i]
             p == Append(path, i)
             ident == find_declaration_name(c)
             d == IF ident # 0
                  THEN Declare(self, ctx, c.children[ident].text,
                               Append(p, ident), "Local")
                  ELSE prev
         IN  CASE Evaluated(prev) ->
                IF c.kind \in {"local_declaration", "var_statement",
                               "const_declaration"}
                THEN CASE Evaluated(d) ->
                        analyze_declaration(d.self, d.ctx, c, p)
                ELSE IF c.kind = "foreach_statement"
                THEN analyze_foreach(self, ctx, c, p)
                ELSE IF c.kind = "for_statement"
                THEN analyze_for(self, ctx, c, p)
                ELSE analyze_node(self, ctx, c, node, p)

\* analyze_table and analyze_table_slot work on clones of the context they
\* are given and return nothing but the resolver.
analyze_table(self, parent_ctx, node, path) ==
    LET slots == extract_table_slot_names(node)
        ctx == [parent_ctx EXCEPT !.locals = @ \cup slots, !.scope = path]
    IN  TableLoop(self, ctx, node, path, Len(node.children))

TableLoop(self0, ctx, node, path, i) ==
    IF i = 0 THEN self0
    ELSE LET self == TableLoop(self0, ctx, node, path, i - 1)
         IN  CASE Evaluated(self) ->
                IF node.children[i].kind = "table_slots"
                THEN SlotsLoop(self, ctx, node.children[i], Append(path, i),
                               Len(node.children[i].children))
                ELSE self

SlotsLoop(self0, ctx, node, path, i) ==
    IF i = 0 THEN self0
    ELSE LET self == SlotsLoop(self0, ctx, node, path, i - 1)
         IN  CASE Evaluated(self) ->
                IF node.children[i].kind = "table_slot"
                THEN analyze_table_slot(self, ctx, node.children[i],
                                        Append(path, i))
                ELSE self

analyze_table_slot(self, ctx, node, path) ==
    SlotLoop(State(self, ctx), node, path, Len(node.children)).self

SlotLoop(start, node, path, i) ==
    IF i = 0 THEN start
    ELSE LET prev == SlotLoop(start, node, path, i - 1)
             c == node.children[i]
         IN  CASE Evaluated(prev) ->
                IF c.kind \in {"identifier", "=", ","}
                THEN prev
                ELSE IF c.kind = "function_declaration"
                THEN analyze_function(prev.self, prev.ctx, c, Append(path, i))
                ELSE analyze_node(prev.self, prev.ctx, c, node, Append(path, i))

analyze_inherit_call(self, parent_ctx, node, path) ==
    InheritLoop(State(self, parent_ctx), node, path, Len(node.children))

InheritLoop(start, node, path, i) ==
    IF i = 0 THEN start
    ELSE LET prev == InheritLoop(start, node, path, i - 1)
         IN  CASE Evaluated(prev) ->
                IF node.children[i].kind = "call_args"
                THEN ArgsLoop(prev, node.children[i], Append(path, i),
                              Len(node.children[i].children))
                ELSE prev

ArgsLoop(start, node, path, i) ==
    IF i = 0 THEN start
    ELSE LET prev == ArgsLoop(start, node, path, i - 1)
             self == prev.self
             parent_ctx == prev.ctx
             arg == node.children[i]
             p == Append(path, i)
             ctx == [child(parent_ctx, p) EXCEPT
                        !.has_parent = TRUE,
                        !.locals = @ \cup extract_table_slot_names(arg)]
         IN  CASE Evaluated(prev) ->
                IF arg.kind = "table"
                THEN [self |-> analyze_table(self, ctx, arg, p),
                      ctx |-> parent_ctx]
                ELSE analyze_node(self, parent_ctx, arg, node, p)

analyze_declaration(self, ctx, node, path) ==
    DeclarationLoop(State(self, ctx), node, path, Len(node.children))

\* seen_declaration_name is set by the first identifier child, which is
\* the one child of that kind the loop passes over.
DeclarationLoop(start, node, path, i) ==
    IF i = 0 THEN start
    ELSE LET prev == DeclarationLoop(start, node, path, i - 1)
             c == node.children[i]
             seen_declaration_name ==
                \E j \in 1..(i - 1) : node.children[j].kind = "identifier"
         IN  CASE Evaluated(prev) ->
                IF c.kind \in {"local", "var", "const", "="}
                THEN prev
                ELSE IF c.kind = "identifier" /\ ~seen_declaration_name
                THEN prev
                ELSE analyze_node(prev.self, prev.ctx, c, node, Append(path, i))

analyze_foreach(self, parent_ctx, node, path) ==
    LET index == child_by_field_name(node, "index")
        value == child_by_field_name(node, "value")
        collection == child_by_field_name(node, "collection")
        r0 == State(self, child(parent_ctx, path))
        r1 == IF index # 0
              THEN Declare(r0.self, r0.ctx, node.children[index].text,
                           Append(path, index), "LoopVariable")
              ELSE r0
        r2 == IF value # 0
              THEN Declare(r1.self, r1.ctx, node.children[value].text,
                           Append(path, value), "LoopVariable")
              ELSE r1
    IN  CASE Evaluated(r1) /\ Evaluated(r2) ->
            ScopeEnd(parent_ctx,
                ForeachLoop(
                    IF collection # 0
                    THEN analyze_node(r2.self, r2.ctx,
                                      node.children[collection], node,
                                      Append(path, collection))
                    ELSE r2,
                    node, path, Len(node.children)))

ForeachLoop(start, node, path, i) ==
    IF i = 0 THEN start
    ELSE LET prev == ForeachLoop(start, node, path, i - 1)
             c == node.children[i]
         IN  CASE Evaluated(prev) ->
                IF i \in {child_by_field_name(node, "index"),
                          child_by_field_name(node, "value"),
                          child_by_field_name(node, "collection")}
                THEN prev
                ELSE IF c.kind = "block"
                THEN analyze_block(prev.self, prev.ctx, c, Append(path, i))
                ELSE IF ~is_syntax_token(c.kind) /\ c.kind \notin {"foreach", "in"}
                THEN analyze_node(prev.self, prev.ctx, c, node, Append(path, i))
                ELSE prev

analyze_for(self, parent_ctx, node, path) ==
    ScopeEnd(parent_ctx,
        ForLoop(ForDeclLoop(State(self, child(parent_ctx, path)),
                            node, path, Len(node.children)),
                node, path, Len(node.children)))

ForDeclLoop(start, node, path, i) ==
    IF i = 0 THEN start
    ELSE LET prev == ForDeclLoop(start, node, path, i - 1)
             c == node.children[i]
             ident == find_declaration_name(c)
         IN  CASE Evaluated(prev) ->
                IF c.kind = "local_declaration" /\ ident # 0
                THEN Declare(prev.self, prev.ctx, c.children[ident].text,
                             Append(path, i) \o <<ident>>, "LoopVariable")
                ELSE prev

ForLoop(start, node, path, i) ==
    IF i = 0 THEN start
    ELSE LET prev == ForLoop(start, node, path, i - 1)
             c == node.children[i]
         IN  CASE Evaluated(prev) ->
                IF c.kind = "block"
                THEN analyze_block(prev.self, prev.ctx, c, Append(path, i))
                ELSE IF ~is_syntax_token(c.kind)
                THEN analyze_node(prev.self, prev.ctx, c, node, Append(path, i))
                ELSE prev

analyze_try(self, ctx, node, path) ==
    TryLoop(State(self, ctx), node, path, Len(node.children))

TryLoop(start, node, path, i) ==
    IF i = 0 THEN start
    ELSE LET prev == TryLoop(start, node, path, i - 1)
         IN  CASE Evaluated(prev) ->
                analyze_node(prev.self, prev.ctx, node.children[i], node,
                             Append(path, i))

analyze_catch(self, parent_ctx, node, path) ==
    ScopeEnd(parent_ctx,
        CatchLoop(CatchDeclLoop(State(self, child(parent_ctx, path)),
                                node, path, Len(node.children)),
                  node, path, Len(node.children)))

CatchDeclLoop(start, node, path, i) ==
    IF i = 0 THEN start
    ELSE LET prev == CatchDeclLoop(start, node, path, i - 1)
             c == node.children[i]
         IN  CASE Evaluated(prev) ->
                IF c.kind = "identifier"
                THEN Declare(prev.self, prev.ctx, c.text, Append(path, i),
                             "CatchVariable")
                ELSE prev

CatchLoop(start, node, path, i) ==
    IF i = 0 THEN start
    ELSE LET prev == CatchLoop(start, node, path, i - 1)
             c == node.children[i]
         IN  CASE Evaluated(prev) ->
                IF c.kind = "block"
                THEN analyze_block(prev.self, prev.ctx, c, Append(path, i))
                ELSE prev

RECURSIVE ScriptLoop(_, _, _)
ScriptLoop(start, node, i) ==
    IF i = 0 THEN start
    ELSE LET prev == ScriptLoop(start, node, i - 1)
             self == prev.self
             ctx == prev.ctx
             c == node.children[i]
             ident == find_first_identifier(c)
             d == IF ident # 0
                  THEN Declare(self, ctx, c.children[ident].text,
                               <<i, ident>>, "Local")
                  ELSE prev
         IN  CASE Evaluated(prev) ->
                IF c.kind \in {"local_declaration", "var_statement",
                               "const_declaration"}
                THEN CASE Evaluated(d) ->
                        analyze_declaration(d.self, d.ctx, c, <<i>>)
                ELSE IF c.kind = "function_declaration"
                THEN analyze_function(
                        self,
                        IF ident # 0
                        THEN [ctx EXCEPT !.locals = @ \cup {c.children[ident].text}]
                        ELSE ctx,
                        c, <<i>>)
                ELSE analyze_node(self, ctx, c, node, <<i>>)

analyze_script(self, ctx, node) ==
    ScriptLoop(State(self, ctx), node, Len(node.children))

RECURSIVE extract_lhs_name(_)
extract_lhs_name(node) ==
    IF node.kind = "identifier" THEN Some(node.text)
    ELSE IF node.kind = "deref_expression"
    THEN LET ds == {i \in 1..Len(node.children) :
                        /\ node.children[i].kind = "deref_expression"
                        /\ extract_lhs_name(node.children[i]) # None}
             is == {i \in 1..Len(node.children) :
                        node.children[i].kind = "identifier"}
         IN  IF ds # {}
             THEN extract_lhs_name(node.children[CHOOSE i \in ds : \A j \in ds : i <= j])
             ELSE IF is # {}
             THEN Some(node.children[CHOOSE i \in is : \A j \in is : j <= i].text)
             ELSE None
    ELSE None

\* The keys of file_symbols.symbols: the names bound by the top-level
\* "lhs <- rhs" statements.
extract_file_symbols(root) ==
    UNION {LET n == root.children[i]
               ls == {j \in 1..Len(n.children) :
                        n.children[j].kind \in {"identifier", "deref_expression"}}
               ss == {j \in 1..Len(n.children) : n.children[j].kind = "<-"}
               lhs == CHOOSE j \in ls : \A k \in ls : j <= k
               slot == CHOOSE j \in ss : \A k \in ss : j <= k
           IN  IF /\ n.kind = "update_expression"
                  /\ ls # {}
                  /\ ss # {}
                  /\ \E j \in 1..Len(n.children) : j > slot /\ j # lhs
                  /\ extract_lhs_name(n.children[lhs]) # None
               THEN {extract_lhs_name(n.children[lhs])[1]}
               ELSE {} :
            i \in 1..Len(root.children)}

\* SymbolResolver::analyze on the resolver made for the tree root.
analyze(self, root) ==
    LET ctx == [ResolverContext_new EXCEPT !.locals = extract_file_symbols(root)]
    IN  ReportUnused(analyze_script(self, ctx, root))

\* ------------------------------------------------------------ analyzed texts
\* Identifier names of the texts: two plain names and one built-in.
Idents == {"x", "y", "type"}

Integer == Node("integer", <<>>)

Local(n, e) == Node("local_declaration", <<Tok("local"), Id(n), Tok("="), e>>)

Params(ps) ==
    Node("parameters", [i \in 1..Len(ps) |-> Node("parameter", <<Id(ps[i])>>)])

\* The braces of a block and the parentheses of a call, which no code
\* looks at, are left out of the trees.
Block(stmts) == Node("block", stmts)

Function(n, ps, stmts) ==
    Node("function_declaration",
         <<Tok("function"), Id(n), Tok("("), Params(ps), Tok(")"), Block(stmts)>>)

AnonymousFunction(ps, stmts) ==
    Node("anonymous_function",
         <<Tok("function"), Tok("("), Params(ps), Tok(")"), Block(stmts)>>)

Lambda(ps, e) ==
    Node("lambda_expression", <<Tok("@"), Tok("("), Params(ps), Tok(")"), e>>)

Call(callee, args) ==
    Node("call_expression", <<callee, Node("call_args", args)>>)

Return(e) == Node("return_statement", <<Tok("return"), e>>)

If(cond, stmt) == Node("if_statement", <<Tok("if"), Tok("("), cond, Tok(")"), stmt>>)

Table(slots) == Node("table", <<Tok("{"), Node("table_slots", slots), Tok("}")>>)

Slot(k, v) == Node("table_slot", <<Id(k), Tok("="), v>>)

FunctionSlot(f) == Node("table_slot", <<f>>)

Foreach(v, coll, stmts) ==
    Node("foreach_statement",
         <<Tok("foreach"), Tok("("), Field("value", Id(v)), Tok("in"),
           Field("collection", coll), Tok(")"), Block(stmts)>>)

ForeachIndexed(k, v, coll, stmts) ==
    Node("foreach_statement",
         <<Tok("foreach"), Tok("("), Field("index", Id(k)), Tok(","),
           Field("value", Id(v)), Tok("in"), Field("collection", coll),
           Tok(")"), Block(stmts)>>)

For(i, cond, stmts) ==
    Node("for_statement",
         <<Tok("for"), Tok("("), Local(i, Integer), Tok(";"), cond, Tok(";"),
           Tok(")"), Block(stmts)>>)

Try(stmts, e, handler) ==
    Node("try_statement",
         <<Tok("try"), Block(stmts),
           Node("catch_statement",
                <<Tok("catch"), Tok("("), Id(e), Tok(")"), Block(handler)>>)>>)

Update(n, e) == Node("update_expression", <<Id(n), Tok("<-"), e>>)

\* this.inherit("scripts/...", { ... })
Inherit(table) ==
    Call(Node("deref_expression", <<Id("this"), Tok("."), Id("inherit")>>),
         <<Node("string", <<>>), Tok(","), table>>)

Script(stmts) == Node("script", stmts)

\* A use of the name n: the bare identifier, or a call of it.
Uses == {Id(n) : n \in Idents} \cup {Call(Id(n), <<>>) : n \in Idents}

\* One statement holding the use u directly or inside nested functions,
\* lambdas, blocks and handlers.
Nested(u) ==
    {u,
     Block(<<u>>),
     Block(<<Block(<<u>>)>>),
     If(Integer, Block(<<u>>)),
     Call(Id("print"), <<AnonymousFunction(<<>>, <<Return(u)>>)>>),
     Call(Id("print"), <<Lambda(<<>>, u)>>),
     Block(<<Call(Id("print"), <<AnonymousFunction(<<>>, <<Block(<<u>>)>>)>>)>>),
     Call(Id("print"), <<AnonymousFunction(<<>>,
            <<Call(Id("print"), <<Lambda(<<>>, u)>>)>>)>>),
     Try(<<u>>, "y", <<Id("y")>>),
     Try(<<>>, "y", <<u>>),
     For("y", u, <<Id("y")>>)}

\* One statement holding the use u inside a table literal.
InTable(u) ==
    {Call(Id("print"), <<Table(<<Slot("k", u)>>)>>),
     Call(Id("print"), <<Table(<<Slot("k", Call(Id("print"), <<u>>))>>)>>),
     Call(Id("print"), <<Table(<<FunctionSlot(
            Function("m", <<>>, <<Return(u)>>))>>)>>)}

\* foreach loops over a collection named c, with or without a use of r in
\* the body.
Loops ==
    {Foreach(v, Id(c), body) :
        v \in Idents, c \in {"x", "y"},
        body \in {<<>>} \cup {<<Id(r)>> : r \in {"x", "y"}}}
        \cup {ForeachIndexed("x", "y", Id(c), <<Id(r)>>) : c, r \in {"x", "y"}}

Statements ==
    UNION {Nested(u) \cup InTable(u) : u \in Uses} \cup Loops

\* Function bodies: a local declared before or after one statement.
Bodies ==
    {<<Local(l, Integer), s>> : l \in Idents, s \in Statements}
        \cup {<<s, Local(l, Integer)>> : l \in {"x"}, s \in Statements}
        \cup {<<s>> : s \in Statements}
        \cup {<<Local(l, Integer)>> : l \in Idents}
        \cup {<<Local("x", Integer), Id("x"), s>> :
                s \in Loops \cup {Try(<<>>, "y", <<>>)}}

\* Bodies of the method of an inherit body.
MethodBodies ==
    {<<Local(l, Integer), s>> : l \in {"x"}, s \in Uses \cup Loops}
        \cup {<<s>> : s \in Uses \cup UNION {InTable(u) : u \in Uses}}
        \cup {<<Call(Id("print"), <<u>>)>> : u \in Uses}
        \cup {<<Local("x", Integer), Id("x"), Call(Id("b"), <<>>), Id("b")>>}

\* Tables of two slots that name each other.
SlotSet ==
    {FunctionSlot(Function(n, <<>>, <<Return(Call(Id(m), <<>>))>>)) :
        n \in {"a", "b"}, m \in {"a", "b", "x"}}
        \cup {Slot(n, Integer) : n \in {"a", "b"}}
        \cup {Slot(n, Call(Id(m), <<>>)) : n \in {"a"}, m \in {"b", "x"}}

Tables ==
    {Table(<<s, t>>) : s, t \in SlotSet}
        \cup {Table(<<s, t, Slot("x", Integer)>>) :
                s, t \in {FunctionSlot(Function(n, <<>>, <<Return(Call(Id(m), <<>>))>>)) :
                            n \in {"a"}, m \in {"b", "x"}}
                        \cup {Slot("b", Integer)}}

\* Two function declarations at the top level, one of which names the
\* other or itself in its body.
FunctionPairs ==
    UNION {{Script(<<Function("f", <<>>, <<s>>), Function("g", <<>>, <<>>)>>),
            Script(<<Function("g", <<>>, <<>>), Function("f", <<>>, <<s>>)>>)} :
                s \in UNION {{Id(n), Call(Id(n), <<>>), Return(Call(Id(n), <<>>)),
                              Call(Id("print"), <<AnonymousFunction(<<>>,
                                    <<Return(Call(Id(n), <<>>))>>)>>)} :
                                n \in {"f", "g"}}}

\* The texts handed to the resolver: a function at the top level, a method
\* of an inherit body, statements at the top level, a table or inherit
\* body bound to a global, and two functions at the top level.
Texts ==
    {Script(<<Function("f", <<p>>, b)>>) : p \in {"x", "y"}, b \in Bodies}
        \cup {Script(<<Update("c", Inherit(Table(<<FunctionSlot(
                        Function("f", <<"y">>, b))>>)))>>) : b \in MethodBodies}
        \cup {Script(b) : b \in Bodies}
        \cup {Script(<<Update("c", t)>>) : t \in Tables}
        \cup {Script(<<Update("c", Inherit(t))>>) : t \in Tables}
        \cup FunctionPairs

GlobalSets == {{}, {"x"}, {"y", "b"}}

\* compute_symbol_diagnostics: SymbolResolver::new, then analyze.
compute_symbol_diagnostics(text) ==
    /\ resolver = None
    /\ resolver' = Some([text |-> text,
                         self |-> analyze(SymbolResolver_new(None), text)])
    /\ UNCHANGED <<files, globals, last_op, index_calls, formatter, pure_vars,
                   backend_vars>>

\* compute_symbol_diagnostics_with_globals: with_globals, then analyze.
compute_symbol_diagnostics_with_globals(text, known_globals) ==
    /\ resolver = None
    /\ resolver' = Some([text |-> text,
                         self |-> analyze(SymbolResolver_new(Some(known_globals)),
                                          text)])
    /\ UNCHANGED <<files, globals, last_op, index_calls, formatter, pure_vars,
                   backend_vars>>

\* ================================================================ formatter
\* A source text is a sequence of pieces: the texts of its lexical tokens
\* and the whitespace characters between them.  The formatter's output is a
\* text of the same form.  A block comment is the pieces from "/*" to "*/",
\* a line comment the pieces from "//" to the end of its line.  The texts
\* hold no brackets, ternaries, switch statements, strings or unary
\* operators, and no line comes near max_width: the branches of the code
\* that only those reach (prev_was_unary, breaking_logical_at_depth, the
\* case-label fields of BraceContext, the writers of brackets and ternaries)
\* are left out, bracket_depth stays 0 and the bracket and ternary stacks
\* stay empty.
Whitespace == {" ", "\n", "\t"}

\* The pieces that are words: two of them written side by side lex as one.
WordPieces == {"if", "else", "for", "x"}

FormatOptions_default ==
    [indent_style |-> [tabs |-> TRUE, width |-> 0],
     insert_final_newline |-> TRUE,
     trim_trailing_whitespace |-> TRUE]

is_keyword_kind(kind) ==
    kind \in {"if", "else", "for", "foreach", "while", "do", "switch", "case",
              "default", "break", "continue", "return", "local", "class", "enum",
              "const", "function", "try", "catch", "throw", "static", "yield",
              "in", "extends", "clone", "typeof"}

is_block_introducing_keyword(text) ==
    text \in {"if", "else", "for", "foreach", "while", "switch", "try", "catch",
              "finally", "do", "class", "enum", "function"}

keyword_requires_space_before_paren(text) ==
    text \in {"if", "for", "foreach", "while", "switch", "catch"}

is_operator(text) ==
    text \in {"=", "+", "-", "*", "/", "%", "<-", "==", "!=", "<", "<=", ">", ">=",
              "&&", "||", "&", "|", "^", "~", "!", "+=", "-=", "*=", "/=", "%=",
              "<<", "<<=", ">>", ">>=", "|=", "&=", "^=", "in"}

is_unary_operator(text) == text \in {"-", "+", "!", "~"}

\* classify_token, by the text of the leaf: a keyword, a word, or an
\* unnamed symbol.
classify_token(text, word) ==
    IF is_keyword_kind(text) THEN "Keyword"
    ELSE IF word THEN "Identifier"
    ELSE "Symbol"

\* A token; pieces are the pieces of the source that make up its text.
Token(text, kind, preceded_by_newline) ==
    [text |-> text, kind |-> kind, preceded_by_newline |-> preceded_by_newline,
     pieces |-> <<text>>]

RECURSIVE Concat(_)
\* The pieces written one after the other.
Concat(pieces) ==
    IF pieces = <<>> THEN "" ELSE pieces[1] \o Concat(Tail(pieces))

\* The token of a comment leaf.
CommentToken(pieces, preceded_by_newline) ==
    [text |-> Concat(pieces), kind |-> "Comment",
     preceded_by_newline |-> preceded_by_newline, pieces |-> pieces]

\* The last piece of the comment leaf that starts at piece i: the first
\* "*/" of a block comment, the piece before the line's end of a line
\* comment, and the last piece of the text when there is no such end.
CommentEnd(source, i) ==
    LET ends == IF source[i] = "/*"
                THEN {j \in i..Len(source) : source[j] = "*/"}
                ELSE {j - 1 : j \in {k \in i..Len(source) : source[k] = "\n"}}
    IN  IF ends = {} THEN Len(source)
        ELSE CHOOSE j \in ends : \A k \in ends : j <= k

RECURSIVE CollectLoop(_, _, _, _, _)
\* collect_tokens after the first i pieces: the tokens so far, the newlines
\* seen since the end of the last token, and whether the last piece was a
\* word (so that a word right behind it belongs to the same leaf).
CollectLoop(source, i, tokens, newline_count, in_word) ==
    IF i > Len(source) THEN tokens
    ELSE LET a == source[i]
         IN  IF a \in Whitespace
             THEN CollectLoop(source, i + 1, tokens,
                              IF a = "\n" THEN newline_count + 1 ELSE newline_count,
                              FALSE)
             ELSE IF a \in {"/*", "//"}
             THEN LET j == CommentEnd(source, i)
                      blank == IF newline_count >= 2
                               THEN <<Token("", "Blankline", TRUE)>>
                               ELSE <<>>
                  IN  CollectLoop(source, j + 1,
                                  tokens \o blank \o
                                    <<CommentToken(SubSeq(source, i, j),
                                                   newline_count > 0)>>,
                                  0, FALSE)
             ELSE IF in_word /\ a \in WordPieces
             THEN LET last == tokens[Len(tokens)]
                      text == last.text \o a
                  IN  CollectLoop(source, i + 1,
                                  [tokens EXCEPT ![Len(tokens)] =
                                        Token(text, classify_token(text, TRUE),
                                              last.preceded_by_newline)],
                                  0, TRUE)
             ELSE LET blank == IF newline_count >= 2
                               THEN <<Token("", "Blankline", TRUE)>>
                               ELSE <<>>
                  IN  CollectLoop(source, i + 1,
                                  tokens \o blank \o
                                    <<Token(a, classify_token(a, a \in WordPieces),
                                            newline_count > 0)>>,
                                  0, a \in WordPieces)

collect_tokens(source) == CollectLoop(source, 1, <<>>, 0, FALSE)

\* ------------------------------------------------------------ Formatter
Formatter_new(options) ==
    [options |-> options,
     output |-> <<>>,
     indent_level |-> 0,
     paren_depth |-> 0,
     bracket_depth |-> 0,
     needs_indent |-> TRUE,
     pending_space |-> FALSE,
     prev |-> None,
     braces |-> <<>>,
     parens |-> <<>>,
     brackets |-> <<>>,
     ternaries |-> <<>>,
     last_closed_paren_kind |-> None]

saturating_sub(n) == IF n > 0 THEN n - 1 ELSE 0

Last(s) == s[Len(s)]

Pop(s) == SubSeq(s, 1, Len(s) - 1)

push(f, piece) == [f EXCEPT !.output = Append(@, piece)]

push_str(f, pieces) == [f EXCEPT !.output = @ \o pieces]

ends_with(f, piece) == f.output # <<>> /\ Last(f.output) = piece

RECURSIVE Repeat(_, _)
Repeat(piece, n) == IF n = 0 THEN <<>> ELSE <<piece>> \o Repeat(piece, n - 1)

push_indent(options, buffer, level) ==
    IF options.indent_style.tabs
    THEN buffer \o Repeat("\t", level)
    ELSE buffer \o Repeat(" ", level * options.indent_style.width)

RECURSIVE trim_trailing_whitespace_line(_)
trim_trailing_whitespace_line(buffer) ==
    IF buffer # <<>> /\ Last(buffer) \in {" ", "\t"}
    THEN trim_trailing_whitespace_line(Pop(buffer))
    ELSE buffer

\* The texts hold no carriage return.
trim_trailing_whitespace(buffer) == trim_trailing_whitespace_line(buffer)

finish(f) ==
    IF f.options.trim_trailing_whitespace
    THEN trim_trailing_whitespace(f.output)
    ELSE f.output

ensure_indent(f) ==
    IF f.needs_indent
    THEN [f EXCEPT !.output = push_indent(f.options, @, f.indent_level),
                   !.needs_indent = FALSE]
    ELSE f

ends_with_whitespace(f) == f.output # <<>> /\ Last(f.output) \in Whitespace

in_for_header(f) ==
    f.paren_depth > 0 /\ f.parens # <<>> /\ Last(f.parens).kind = "For"

in_function_params(f) ==
    f.paren_depth > 0 /\ f.parens # <<>> /\ Last(f.parens).kind = "Function"

in_multiline_call(f) ==
    f.paren_depth > 0 /\ f.parens # <<>> /\ Last(f.parens).multiline

in_object_top_level(f) ==
    /\ f.braces # <<>>
    /\ Last(f.braces).kind = "ObjectMultiline"
    /\ Last(f.braces).paren_depth_at_open = f.paren_depth
    /\ Last(f.braces).bracket_depth_at_open = f.bracket_depth

\* No bracket is ever open.
in_pretty_array(f) == FALSE

in_switch_block(f) == f.braces # <<>> /\ Last(f.braces).kind = "Switch"

apply_pending_space(f) ==
    LET g == IF f.pending_space /\ ~ends_with_whitespace(f) THEN push(f, " ") ELSE f
    IN  [g EXCEPT !.pending_space = FALSE]

push_newline(f) ==
    LET g == IF f.options.trim_trailing_whitespace
             THEN [f EXCEPT !.output = trim_trailing_whitespace_line(@)]
             ELSE f
        h == IF ~ends_with(g, "\n") THEN push(g, "\n") ELSE g
    IN  [h EXCEPT !.needs_indent = TRUE, !.pending_space = FALSE, !.prev = None]

set_prev(f, token) ==
    [f EXCEPT !.prev = Some([text |-> token.text, kind |-> token.kind])]

needs_space(prev_opt, current) ==
    IF prev_opt = None THEN FALSE
    ELSE LET prev == prev_opt[1]
             prev_text == prev.text
             curr_text == current.text
         IN  IF prev.kind = "String"
                    \/ (current.kind = "String" /\ prev.kind # "Keyword")
             THEN FALSE
             ELSE IF prev_text \in {"(", "[", "{", ".", "::"} THEN FALSE
             ELSE IF curr_text \in {")", "]", ",", ";"} THEN FALSE
             ELSE IF curr_text \in {".", "::"} THEN prev.kind = "Keyword"
             ELSE IF curr_text = "(" THEN keyword_requires_space_before_paren(prev_text)
             ELSE IF curr_text = "{"
             THEN prev.kind \in {"Identifier", "Other", "Keyword"} \/ prev_text = ")"
             ELSE IF curr_text = "}" THEN FALSE
             ELSE IF is_operator(curr_text) \/ is_operator(prev_text) THEN TRUE
             ELSE IF prev.kind = "Keyword" THEN TRUE
             ELSE IF prev.kind = "Identifier" /\ current.kind = "Identifier" THEN TRUE
             ELSE IF prev.kind \in {"Identifier", "Number"} /\ current.kind = "Number"
             THEN TRUE
             ELSE IF current.kind = "Comment" THEN TRUE
             ELSE IF prev_text = ")" /\ current.kind = "Keyword" THEN TRUE
             ELSE FALSE

prepare_token(f, token) ==
    LET g == apply_pending_space(ensure_indent(f))
    IN  IF needs_space(g.prev, token) /\ ~ends_with_whitespace(g)
        THEN push(g, " ")
        ELSE g

\* Option<&Token> of the first of the remaining tokens.
first(remaining) == IF remaining = <<>> THEN None ELSE Some(remaining[1])

text_is(token_opt, texts) == token_opt # None /\ token_opt[1].text \in texts

RECURSIVE next_non_comment(_)
next_non_comment(remaining) ==
    IF remaining = <<>> THEN None
    ELSE IF remaining[1].kind \notin {"Comment", "Blankline"} THEN Some(remaining[1])
    ELSE next_non_comment(Tail(remaining))

BraceContext(kind, f, is_synthetic) ==
    [kind |-> kind,
     paren_depth_at_open |-> f.paren_depth,
     bracket_depth_at_open |-> f.bracket_depth,
     is_synthetic |-> is_synthetic]

write_open_brace(f0, token, next) ==
    LET f == prepare_token(f0, token)
        is_switch == f.last_closed_paren_kind = Some("Switch")
        is_block == /\ f.prev # None
                    /\ \/ f.prev[1].text = ")"
                       \/ is_block_introducing_keyword(f.prev[1].text)
        kind == IF is_switch THEN "Switch"
                ELSE IF is_block THEN "Block"
                ELSE IF text_is(next, {"}"}) THEN "ObjectInline"
                ELSE "ObjectMultiline"
        g == [push(f, "{") EXCEPT
                !.braces = Append(@, BraceContext(kind, f, FALSE)),
                !.last_closed_paren_kind = None]
    IN  IF kind = "ObjectInline"
        THEN set_prev(g, token)
        ELSE push_newline([g EXCEPT !.indent_level = @ + 1])

\* A comment token whose text starts with "//".
is_line_comment(token_opt) ==
    /\ token_opt # None
    /\ token_opt[1].kind = "Comment"
    /\ token_opt[1].pieces[1] = "//"

\* The branch for an object that closes right before `]` is never taken.
write_close_brace(f0, token, next) ==
    LET frame == IF f0.braces = <<>> THEN None ELSE Some(Last(f0.braces))
        inline == frame # None /\ frame[1].kind = "ObjectInline"
        f1 == [f0 EXCEPT !.braces = IF @ = <<>> THEN @ ELSE Pop(@)]
        f2 == IF ~inline
              THEN [f1 EXCEPT !.indent_level = saturating_sub(@)]
              ELSE f1
        f3 == IF ~ends_with(f2, "\n") /\ ~inline THEN push_newline(f2) ELSE f2
        f4 == set_prev(push(ensure_indent(f3), "}"), token)
    IN  IF text_is(next, {")", ";", ","})
        THEN [f4 EXCEPT !.needs_indent = FALSE]
        ELSE IF text_is(next, {"else", "catch", "finally", "while"})
        THEN [push(f4, " ") EXCEPT !.needs_indent = FALSE, !.prev = None]
        ELSE IF is_line_comment(next)
        THEN [push(f4, " ") EXCEPT !.needs_indent = FALSE]
        ELSE IF ~inline THEN push_newline(f4)
        ELSE f4

write_semicolon(f0, token, next) ==
    LET f1 == push(apply_pending_space(ensure_indent(f0)), ";")
        next_is_same_line_comment ==
            is_line_comment(next) /\ ~next[1].preceded_by_newline
        f2 == IF in_for_header(f1)
              THEN set_prev(push(f1, " "), token)
              ELSE push_newline(f1)
    IN  IF next_is_same_line_comment
        THEN set_prev(IF Last(f1.output) \notin {" ", "\t"}
                      THEN push(f1, " ") ELSE f1,
                      token)
        ELSE IF f2.braces # <<>> /\ Last(f2.braces).is_synthetic
        THEN write_close_brace(f2, Token("}", "Symbol", FALSE), next)
        ELSE f2

\* No bracket is ever open.
write_blankline(f) ==
    IF in_switch_block(f) THEN f
    ELSE IF Len(f.output) >= 2 /\ Last(f.output) = "\n" /\ Last(Pop(f.output)) = "\n"
    THEN f
    ELSE LET g == IF ~ends_with(f, "\n") THEN push_newline(f) ELSE f
         IN  [push(g, "\n") EXCEPT
                !.needs_indent = TRUE, !.pending_space = FALSE, !.prev = None]

write_comma_DropAny(f0, token, next) ==
    LET f == prepare_token(f0, token)
    IN  IF text_is(next, {"}"})
        THEN set_prev(push_newline(f), token)
        ELSE set_prev(push(push(f, ","), " "), token)

write_comma(f0, token, next) ==
    LET f == prepare_token(f0, token)
        object_top_level == in_object_top_level(f)
        function_params == in_function_params(f)
        pretty_array == in_pretty_array(f)
        multiline_call == in_multiline_call(f)
        is_trailing == text_is(next, {"}"})
        g == push(f, ",")
    IN  IF is_trailing /\ object_top_level /\ ~function_params
        THEN set_prev(push_newline(f), token)
        ELSE set_prev(
                IF object_top_level /\ ~function_params
                THEN IF text_is(next, {"function"})
                     THEN write_blankline(g)
                     ELSE push_newline(g)
                ELSE IF multiline_call THEN push_newline(g)
                ELSE IF pretty_array THEN push_newline(g)
                ELSE IF ~text_is(next, {")", "]", "}"}) THEN push(g, " ")
                ELSE g,
                token)

ParenContext(kind, f, multiline) ==
    [kind |-> kind, bracket_depth_at_open |-> f.bracket_depth, multiline |-> multiline]

write_open_paren(f0, token, remaining) ==
    LET f1 == [push(prepare_token(f0, token), "(") EXCEPT !.paren_depth = @ + 1]
        kind == IF f1.prev = None THEN "Regular"
                ELSE CASE f1.prev[1].text = "for" -> "For"
                       [] f1.prev[1].text = "if" -> "If"
                       [] f1.prev[1].text = "switch" -> "Switch"
                       [] f1.prev[1].text = "function" -> "Function"
                       [] OTHER -> "Regular"
        next_breaks_line ==
            /\ remaining # <<>>
            /\ remaining[1].preceded_by_newline
            /\ remaining[1].text \notin {")", "[", "{"}
        should_multiline == IF kind = "Function" THEN FALSE ELSE next_breaks_line
        f2 == [f1 EXCEPT !.parens = Append(@, ParenContext(kind, f1, should_multiline))]
        f3 == IF should_multiline
              THEN push_newline([f2 EXCEPT !.indent_level = @ + 1])
              ELSE f2
    IN  set_prev(f3, token)

write_close_paren(f0, token, remaining) ==
    LET frame == IF f0.parens = <<>> THEN None ELSE Some(Last(f0.parens))
        frame_kind == IF frame = None THEN None ELSE Some(frame[1].kind)
        is_if_header == frame_kind = Some("If")
        was_multiline == frame # None /\ frame[1].multiline
        f1 == [f0 EXCEPT !.paren_depth = saturating_sub(@),
                         !.parens = IF @ = <<>> THEN @ ELSE Pop(@),
                         !.last_closed_paren_kind = frame_kind]
        f2 == IF was_multiline /\ frame_kind = Some("Regular")
              THEN LET g == [f1 EXCEPT !.indent_level = saturating_sub(@)]
                   IN  IF ~ends_with(g, "\n") THEN push_newline(g) ELSE g
              ELSE f1
        f3 == push(apply_pending_space(ensure_indent(f2)), ")")
        next_is_brace == text_is(next_non_comment(remaining), {"{"})
        f4 == IF next_is_brace
              THEN IF was_multiline
                   THEN push_newline(f3)
                   ELSE [push(f3, " ") EXCEPT !.needs_indent = FALSE]
              ELSE IF is_if_header
              THEN LET g == push_newline(
                                [push(push(f3, " "), "{") EXCEPT !.indent_level = @ + 1])
                   IN  [g EXCEPT !.braces = Append(@, BraceContext("Block", g, TRUE))]
              ELSE f3
    IN  set_prev(f4, token)

write_operator_default(f0, token) ==
    LET f1 == prepare_token(f0, token)
        f2 == IF ~ends_with(f1, " ") THEN push(f1, " ") ELSE f1
    IN  set_prev([push(f2, token.text) EXCEPT !.pending_space = TRUE], token)

\* The operators of the texts are neither unary nor logical nor among the
\* binary operators that may break a line.
write_operator(f, token, remaining) == write_operator_default(f, token)

write_default(f, token) ==
    set_prev(push(prepare_token(f, token), token.text), token)

\* The lines of a text: the pieces between its newlines.  Like str::lines,
\* no empty last line is made of a newline at the end.
RECURSIVE LinesLoop(_, _, _)
LinesLoop(pieces, i, line) ==
    IF i > Len(pieces) THEN IF line = <<>> THEN <<>> ELSE <<line>>
    ELSE IF pieces[i] = "\n" THEN <<line>> \o LinesLoop(pieces, i + 1, <<>>)
    ELSE LinesLoop(pieces, i + 1, Append(line, pieces[i]))

lines(pieces) == LinesLoop(pieces, 1, <<>>)

RECURSIVE CommentLoop(_, _, _)
\* The loop of write_comment over the lines of a multiline comment, after
\* the first idx lines.
CommentLoop(f0, text_lines, idx) ==
    IF idx = 0 THEN f0
    ELSE LET prev == CommentLoop(f0, text_lines, idx - 1)
             f1 == IF idx > 1 THEN push_newline(prev) ELSE prev
             f2 == IF idx = 1 THEN ensure_indent(f1) ELSE f1
         IN  CASE Evaluated(prev) -> push_str(f2, text_lines[idx])

\* The texts hold no carriage return, and the text of a comment token
\* starts with no whitespace: text and trimmed_text are the token's text.
write_comment(f, token) ==
    LET text == token.pieces
    IN  IF text[1] = "//"
        THEN IF f.output # <<>> /\ ~ends_with(f, "\n")
             THEN push_newline(
                    push_str(IF Last(f.output) \notin {" ", "\t"}
                             THEN push(f, " ") ELSE f,
                             text))
             ELSE push_newline(push_str(ensure_indent(f), text))
        ELSE IF \E i \in 1..Len(text) : text[i] = "\n"
        THEN push_newline(CommentLoop(f, lines(text), Len(lines(text))))
        ELSE LET f1 == prepare_token(f, token)
                 f2 == IF ~ends_with(f1, " ") /\ ~ends_with(f1, "\n")
                       THEN push(f1, " ") ELSE f1
             IN  set_prev(push_str(f2, text), token)

write_else(f0, token, remaining) ==
    LET f1 == push(prepare_token(f0, token), token.text)
        next == next_non_comment(remaining)
        f2 == IF ~text_is(next, {"{"}) /\ ~text_is(next, {"if"})
              THEN LET g == push_newline(
                                [push(push(f1, " "), "{") EXCEPT !.indent_level = @ + 1])
                   IN  [g EXCEPT !.braces = Append(@, BraceContext("Block", g, TRUE))]
              ELSE [push(f1, " ") EXCEPT !.needs_indent = FALSE]
    IN  set_prev(f2, token)

\* The arms for case labels, brackets, member access, ternaries, colons and
\* increments match no token of the texts.
write_token(f, token, next, remaining) ==
    LET is_symbol == token.kind = "Symbol"
    IN  CASE token.text = "{" /\ is_symbol -> write_open_brace(f, token, next)
          [] token.text = "}" /\ is_symbol -> write_close_brace(f, token, next)
          [] token.text = ";" /\ is_symbol -> write_semicolon(f, token, next)
          [] token.text = "," /\ is_symbol -> write_comma(f, token, next)
          [] token.text = "(" /\ is_symbol -> write_open_paren(f, token, remaining)
          [] token.text = ")" /\ is_symbol -> write_close_paren(f, token, remaining)
          [] token.text = "else" /\ token.kind = "Keyword" ->
                write_else(f, token, remaining)
          [] OTHER ->
                IF token.kind = "Comment" THEN write_comment(f, token)
                ELSE IF token.kind = "Blankline" THEN write_blankline(f)
                ELSE IF token.kind # "String" /\ is_operator(token.text)
                THEN write_operator(f, token, remaining)
                ELSE write_default(f, token)

\* The end of format_document: finish, then the final newline.
Finished(f) ==
    LET output == finish(f)
    IN  IF f.options.insert_final_newline /\ (output = <<>> \/ Last(output) # "\n")
        THEN Append(output, "\n")
        ELSE output

RECURSIVE WriteLoop(_, _, _)
\* The formatter after the first idx tokens.
WriteLoop(options, tokens, idx) ==
    IF idx = 0 THEN Formatter_new(options)
    ELSE LET f == WriteLoop(options, tokens, idx - 1)
             remaining == SubSeq(tokens, idx + 1, Len(tokens))
         IN  CASE Evaluated(f) -> write_token(f, tokens[idx], first(remaining), remaining)

\* format_document as a function of the source text and the options.
FormatDocument(source, options) ==
    LET tokens == collect_tokens(source)
    IN  Finished(WriteLoop(options, tokens, Len(tokens)))

\* ---------------------------------------------------------- formatted texts
\* The pieces of a text, one space between two of them; a newline piece
\* stands alone.
RECURSIVE Spaced(_)
Spaced(pieces) ==
    IF Len(pieces) <= 1 THEN pieces
    ELSE IF pieces[1] = "\n" \/ pieces[2] = "\n"
    THEN <<pieces[1]>> \o Spaced(Tail(pieces))
    ELSE <<pieces[1], " ">> \o Spaced(Tail(pieces))

\* Statements of the language: expression statements, if statements with
\* and without braces, else branches, a terminator or none, a condition and
\* a call broken after `(`, and table literals.
FormattedStatements ==
    {<<"x", ";">>,
     <<"if", "(", "x", ")", "x", ";">>,
     <<"if", "(", "x", ")", "x">>,
     <<"if", "(", "x", ")", "{", "x", ";", "}">>,
     <<"if", "(", "x", ")", "x", ";", "else", "x", ";">>,
     <<"if", "(", "x", ")", "{", "x", ";", "}", "else", "{", "x", ";", "}">>,
     <<"if", "(", "x", ")", "x", ";", "else", "if", "(", "x", ")", "x", ";">>,
     <<"if", "(", "\n", "x", ")", "x", ";">>,
     <<"if", "(", "\n", "x", ")", "{", "x", ";", "}">>,
     <<"if", "(", "x", ")", "if", "(", "x", ")", "x", ";">>,
     <<"x", "=", "{", "x", "=", "x", ",", "}", ";">>,
     <<"x", "=", "{", "x", "=", "x", ",", "x", "=", "x", "}", ";">>,
     <<"x", "=", "{", "}", ";">>,
     <<"x", "(", "\n", "x", ",", "x", ")", ";">>,
     <<"x", "(", "x", ",", "x", ")", ";">>}

\* Texts that parse without an error node: one statement, or two on
\* separate lines with or without a blank line between them.
WellFormed ==
    {Spaced(s) : s \in FormattedStatements}
        \cup {Spaced(s) \o sep \o Spaced(t) :
                s, t \in FormattedStatements, sep \in {<<"\n">>, <<"\n", "\n">>}}

\* Texts with error nodes: unmatched closers, an unfinished condition, an
\* else without an if, a comma before `}` outside any table.
ErrorTexts ==
    {Spaced(s) : s \in
        {<<"}">>,
         <<")", "x", ";">>,
         <<"if", "(", "x">>,
         <<"else", "x", ";">>,
         <<"x", ",", "}">>,
         <<"x", "=", "{", "x", "(", "x", ",", "}">>,
         <<"x", "else", "x">>}}

\* Texts with comments: block comments of several lines, with and without
\* an empty line and an indented line inside, at the top level and inside a
\* block; a block comment of one line; line comments on a line of their own,
\* after `;`, after `}` and after the `;` of a statement that an if guards.
CommentTexts ==
    {<<"/*", "\n", "x", "\n", "*/">>,
     <<"/*", "\n", "\n", "x", "\n", "*/">>,
     <<"/*", " ", "x", "\n", " ", " ", "x", "\n", " ", "*/", "\n", "x", ";">>,
     <<"x", ";", "\n", "/*", "x", "\n", "\n", "*/", "\n", "x", ";">>,
     <<"if", " ", "(", "x", ")", " ", "{", "\n", "/*", "\n", "x", "\n", "*/",
       "\n", "x", ";", "\n", "}">>,
     <<"x", ";", " ", "/*", " ", "x", " ", "*/">>,
     <<"//", " ", "x", "\n", "x", ";">>,
     <<"x", ";", " ", "//", " ", "x", "\n", "x", ";">>,
     <<"if", " ", "(", "x", ")", " ", "{", "x", ";", "}", " ", "//", "x">>,
     <<"if", " ", "(", "x", ")", " ", "x", ";", " ", "//", "x", "\n", "x", ";">>}

\* Texts in which an if or an else guards a for statement, or is followed
\* by another statement on the same line.
GuardedTexts ==
    {Spaced(s) : s \in
        {<<"for", "(", "x", ";", "x", ";", "x", ")", "x", ";">>,
         <<"if", "(", "x", ")", "for", "(", "x", ";", "x", ";", "x", ")", "x", ";">>,
         <<"if", "(", "x", ")", "x", ";", "else", "for", "(", "x", ";", "x", ";",
           "x", ")", "x", ";">>,
         <<"if", "(", "x", ")", "x", ";", "x", ";">>,
         <<"if", "(", "x", ")", "if", "(", "x", ")", "x", ";", "x", ";">>}}

Sources == WellFormed \cup ErrorTexts \cup CommentTexts \cup GuardedTexts

AllOptions ==
    {FormatOptions_default,
     [indent_style |-> [tabs |-> FALSE, width |-> 2],
      insert_final_newline |-> FALSE,
      trim_trailing_whitespace |-> TRUE]}

\* format_document up to its loop: parse, collect_tokens, Formatter::new.
format_document(source, options) ==
    /\ formatter = None
    /\ formatter' = Some([source |-> source,
                          options |-> options,
                          tokens |-> collect_tokens(source),
                          idx |-> 0,
                          f |-> Formatter_new(options),
                          output |-> None])
    /\ UNCHANGED <<files, globals, last_op, index_calls, resolver, pure_vars,
                   backend_vars>>

\* One turn of the loop of format_document: write_token on the next token.
format_document_loop ==
    /\ formatter # None
    /\ formatter[1].output = None
    /\ formatter[1].idx < Len(formatter[1].tokens)
    /\ LET call == formatter[1]
           idx == call.idx + 1
           remaining == SubSeq(call.tokens, idx + 1, Len(call.tokens))
       IN  formatter' = Some([call EXCEPT
                !.idx = idx,
                !.f = write_token(call.f, call.tokens[idx], first(remaining),
                                  remaining)])
    /\ UNCHANGED <<files, globals, last_op, index_calls, resolver, pure_vars,
                   backend_vars>>

\* The end of format_document: finish and the final newline.
format_document_return ==
    /\ formatter # None
    /\ formatter[1].output = None
    /\ formatter[1].idx = Len(formatter[1].tokens)
    /\ formatter' = Some([formatter[1] EXCEPT !.output = Some(Finished(formatter[1].f))])
    /\ UNCHANGED <<files, globals, last_op, index_calls, resolver, pure_vars,
                   backend_vars>>

\* ================================================================== helpers
\* A text of the position helpers is a sequence of characters.  A character
\* is known by its name: "a" and the newline take one byte in UTF-8,
\* U+00E9 two, U+20AC three and U+1F600 four; U+1F600 is outside the basic
\* plane and takes two UTF-16 code units (a surrogate pair), the others one.
Chars == {"a", "\n", "U+00E9", "U+20AC", "U+1F600"}

len_utf8(ch) ==
    CASE ch = "U+00E9" -> 2
      [] ch = "U+20AC" -> 3
      [] ch = "U+1F600" -> 4
      [] OTHER -> 1

len_utf16(ch) == IF ch = "U+1F600" THEN 2 ELSE 1

RECURSIVE len(_)
\* str::len: the number of bytes of the text.
len(text) == IF text = <<>> THEN 0 ELSE len_utf8(text[1]) + len(Tail(text))

min(a, b) == IF a <= b THEN a ELSE b

Position_new(line, character) == [line |-> line, character |-> character]

RECURSIVE PositionLoop(_, _, _, _, _, _)
\* The loop of position_at before the character i.
PositionLoop(text, i, byte_offset, line, col_utf16, bytes_seen) ==
    IF i > Len(text) \/ bytes_seen >= byte_offset
    THEN Position_new(line, col_utf16)
    ELSE IF text[i] = "\n"
    THEN PositionLoop(text, i + 1, byte_offset, line + 1, 0,
                      bytes_seen + len_utf8(text[i]))
    ELSE PositionLoop(text, i + 1, byte_offset, line,
                      col_utf16 + len_utf16(text[i]),
                      bytes_seen + len_utf8(text[i]))

\* position_at that stops one byte later.
position_at_OneByteLater(text, byte_offset) ==
    PositionLoop(text, 1, min(byte_offset, len(text)) + 1, 0, 0, 0)

position_at(text, byte_offset) ==
    PositionLoop(text, 1, min(byte_offset, len(text)), 0, 0, 0)

RECURSIVE OffsetLoop(_, _, _, _, _, _)
\* The loop of byte_offset_at before the character i, and its end.
OffsetLoop(text, i, position, current_line, current_col_utf16, byte_offset) ==
    IF current_line = position.line /\ current_col_utf16 = position.character
    THEN Some(byte_offset)
    ELSE IF i > Len(text) THEN None
    ELSE IF current_line > position.line THEN None
    ELSE IF text[i] = "\n"
    THEN OffsetLoop(text, i + 1, position, current_line + 1, 0,
                    byte_offset + len_utf8(text[i]))
    ELSE OffsetLoop(text, i + 1, position, current_line,
                    current_col_utf16 + len_utf16(text[i]),
                    byte_offset + len_utf8(text[i]))

byte_offset_at(text, position) == OffsetLoop(text, 1, position, 0, 0, 0)

\* The texts of at most MaxChars characters.
HelperTexts == UNION {[1..n -> Chars] : n \in 0..MaxChars}

\* One call of position_at.
position_at_call(text, byte_offset) ==
    /\ helpers' = Some([op |-> "position_at", text |-> text,
                        byte_offset |-> byte_offset,
                        position |-> position_at(text, byte_offset)])
    /\ UNCHANGED <<files, globals, last_op, index_calls, resolver, formatter,
                   semantic, syntax, backend_vars>>

\* One call of byte_offset_at.
byte_offset_at_call(text, position) ==
    /\ helpers' = Some([op |-> "byte_offset_at", text |-> text,
                        position |-> position,
                        byte_offset |-> byte_offset_at(text, position)])
    /\ UNCHANGED <<files, globals, last_op, index_calls, resolver, formatter,
                   semantic, syntax, backend_vars>>

\* ========================================================= semantic tokens
TOKEN_TYPE_VARIABLE == 8

TOKEN_TYPE_COMMENT == 17

\* The leaves the walk over the tree pushes a token for, as their texts
\* and token types ("a" stands for any character of one byte that is no
\* newline): an identifier, a comment of one line that holds a character
\* outside the basic plane, and block comments of two and of three lines.
LeafKinds ==
    { [text |-> <<"a">>, token_type |-> TOKEN_TYPE_VARIABLE],
      [text |-> <<"a", "U+1F600">>, token_type |-> TOKEN_TYPE_COMMENT],
      [text |-> <<"a", "\n", "a", "a">>, token_type |-> TOKEN_TYPE_COMMENT],
      [text |-> <<"a", "\n", "\n", "U+1F600">>, token_type |-> TOKEN_TYPE_COMMENT] }

\* The whitespace between two leaves: a space or a newline.
Gaps == {<<" ">>, <<"\n">>}

\* A text is its leaves in source order, each but the first after a gap.
SemanticInputs ==
    UNION {[1..n -> [leaf : LeafKinds, gap : Gaps]] : n \in 1..MaxLeaves}

RECURSIVE TextOf(_, _)
\* The text of the leaves from the i-th on.
TextOf(input, i) ==
    IF i > Len(input) THEN <<>>
    ELSE (IF i = 1 THEN <<>> ELSE input[i].gap) \o input[i].leaf.text
            \o TextOf(input, i + 1)

RECURSIVE WalkLoop(_, _, _)
\* The walk over the tree from the i-th leaf on, which starts at the byte
\* start_byte: one (start_byte, end_byte, token_type, modifiers) per leaf.
WalkLoop(input, i, start_byte) ==
    IF i > Len(input) THEN <<>>
    ELSE LET start == start_byte + (IF i = 1 THEN 0 ELSE len(input[i].gap))
             end == start + len(input[i].leaf.text)
         IN  <<[start_byte |-> start, end_byte |-> end,
                token_type |-> input[i].leaf.token_type, modifiers |-> 0]>>
                \o WalkLoop(input, i + 1, end)

RECURSIVE InsertSorted(_, _)
\* tokens with the token t put behind the last token that starts no later.
InsertSorted(tokens, t) ==
    IF tokens = <<>> THEN <<t>>
    ELSE IF tokens[Len(tokens)].start_byte <= t.start_byte
    THEN Append(tokens, t)
    ELSE Append(InsertSorted(SubSeq(tokens, 1, Len(tokens) - 1), t), tokens[Len(tokens)])

RECURSIVE sort_by_key(_)
\* Vec::sort_by_key on the start byte: a stable sort.
sort_by_key(tokens) ==
    IF tokens = <<>> THEN <<>>
    ELSE InsertSorted(sort_by_key(SubSeq(tokens, 1, Len(tokens) - 1)), tokens[Len(tokens)])

RECURSIVE byte_index(_, _)
\* Number of characters of the text before the byte offset b; the texts'
\* tokens start and end between two characters.
byte_index(text, b) ==
    IF text = <<>> \/ b <= 0 THEN 0
    ELSE 1 + byte_index(Tail(text), b - len_utf8(text[1]))

\* &text[start_byte..end_byte]
str_slice(text, start_byte, end_byte) ==
    SubSeq(text, byte_index(text, start_byte) + 1, byte_index(text, end_byte))

RECURSIVE SplitLoop(_, _, _)
\* str::split('\n') from the character i on, cur being the line so far: a
\* newline at the end gives an empty last line.
SplitLoop(text, i, cur) ==
    IF i > Len(text) THEN <<cur>>
    ELSE IF text[i] = "\n" THEN <<cur>> \o SplitLoop(text, i + 1, <<>>)
    ELSE SplitLoop(text, i + 1, Append(cur, text[i]))

split(text) == SplitLoop(text, 1, <<>>)

RECURSIVE encode_utf16_count(_)
\* str::encode_utf16().count()
encode_utf16_count(text) ==
    IF text = <<>> THEN 0 ELSE len_utf16(text[1]) + encode_utf16_count(Tail(text))

SemanticToken(delta_line, delta_start, length, token_type, modifiers) ==
    [delta_line |-> delta_line, delta_start |-> delta_start, length |-> length,
     token_type |-> token_type, token_modifiers_bitset |-> modifiers]

\* The state of the conversion loop: the tokens pushed and the previous
\* line and column.
Encoder(semantic_tokens, prev_line, prev_col) ==
    [semantic_tokens |-> semantic_tokens, prev_line |-> prev_line,
     prev_col |-> prev_col]

\* The branch for a token of one line.
SingleLine(e, start_pos, end_pos, token) ==
    LET length == end_pos.character - start_pos.character
        delta_line == start_pos.line - e.prev_line
        delta_start == IF delta_line = 0 THEN start_pos.character - e.prev_col
                       ELSE start_pos.character
    IN  Encoder(Append(e.semantic_tokens,
                       SemanticToken(delta_line, delta_start, length,
                                     token.token_type, token.modifiers)),
                start_pos.line, start_pos.character)

RECURSIVE MultiLineLoop(_, _, _, _, _, _)
\* The loop over the lines of a token of several lines, before the line
\* number i (counted from 0, as enumerate does).
MultiLineLoop(e, parts, i, current_line, start_pos, token) ==
    IF i >= Len(parts) THEN e
    ELSE LET line_start_col == IF i = 0 THEN start_pos.character ELSE 0
             line_length == encode_utf16_count(parts[i + 1])
             delta_line == current_line - e.prev_line
             delta_start == IF delta_line = 0 THEN line_start_col - e.prev_col
                            ELSE line_start_col
         IN  MultiLineLoop(
                Encoder(Append(e.semantic_tokens,
                               SemanticToken(delta_line, delta_start, line_length,
                                             token.token_type, token.modifiers)),
                        current_line, line_start_col + line_length),
                parts, i + 1, current_line + 1, start_pos, token)

RECURSIVE EncodeLoop(_, _, _, _)
\* The conversion loop before the i-th token.
EncodeLoop(e, text, tokens, i) ==
    IF i > Len(tokens) THEN e.semantic_tokens
    ELSE LET start_pos == position_at(text, tokens[i].start_byte)
             end_pos == position_at(text, tokens[i].end_byte)
         IN  IF start_pos.line = end_pos.line
             THEN EncodeLoop(SingleLine(e, start_pos, end_pos, tokens[i]),
                             text, tokens, i + 1)
             ELSE EncodeLoop(
                    MultiLineLoop(e,
                        split(str_slice(text, tokens[i].start_byte,
                                        tokens[i].end_byte)),
                        0, start_pos.line, start_pos, tokens[i]),
                    text, tokens, i + 1)

\* compute_semantic_tokens on the text of the input, whose tree holds the
\* leaves of the input.
compute_semantic_tokens(input) ==
    EncodeLoop(Encoder(<<>>, 0, 0), TextOf(input, 1),
               sort_by_key(WalkLoop(input, 1, 0)), 1)

\* One call of compute_semantic_tokens.
compute_semantic_tokens_call(input) ==
    /\ semantic' = Some([text |-> TextOf(input, 1),
                         tokens |-> sort_by_key(WalkLoop(input, 1, 0)),
                         semantic_tokens |-> compute_semantic_tokens(input)])
    /\ UNCHANGED <<files, globals, last_op, index_calls, resolver, formatter,
                   helpers, syntax, backend_vars>>

\* ======================================================= syntax diagnostics
\* The number of bytes the first line of an error node is cut to.
MaxSnippetBytes == 40

\* str::is_char_boundary: the byte offset b lies between two characters of
\* the text, or at one of its ends.
is_char_boundary(text, b) ==
    \E i \in 0..Len(text) : len(SubSeq(text, 1, i)) = b

\* &text[start..end]: None when the slice panics, because an end of the
\* range is no character boundary.
checked_slice(text, start, end) ==
    IF is_char_boundary(text, start) /\ is_char_boundary(text, end) /\ start <= end
    THEN Some(str_slice(text, start, end))
    ELSE None

\* str::lines().next().unwrap_or(""): the characters before the first
\* newline.
first_line(snippet) ==
    LET newlines == {i \in 1..Len(snippet) : snippet[i] = "\n"}
    IN  IF newlines = {} THEN snippet
        ELSE SubSeq(snippet, 1, (CHOOSE i \in newlines : \A j \in newlines : i <= j) - 1)

RECURSIVE trim_start(_)
trim_start(s) ==
    IF s # <<>> /\ s[1] \in {" ", "\n"} THEN trim_start(Tail(s)) ELSE s

RECURSIVE trim_end(_)
trim_end(s) ==
    IF s # <<>> /\ s[Len(s)] \in {" ", "\n"}
    THEN trim_end(SubSeq(s, 1, Len(s) - 1)) ELSE s

\* str::trim
trim(s) == trim_end(trim_start(s))

\* A node of the tree, as far as compute_syntax_diagnostics looks at it.
SyntaxNode(kind, start_byte, end_byte, is_error, is_missing) ==
    [kind |-> kind, start_byte |-> start_byte, end_byte |-> end_byte,
     is_error |-> is_error, is_missing |-> is_missing]

\* The message of a node that is not missing: None when a slice panics.
UnexpectedMessage(text, start, end) ==
    LET snippet == checked_slice(text, start, end)
    IN  IF snippet = None THEN None
        ELSE LET first_trimmed == trim(first_line(snippet[1]))
             IN  IF first_trimmed = <<>> THEN Some([msg |-> "Unexpected input", display |-> <<>>])
                 ELSE IF len(first_trimmed) > MaxSnippetBytes
                 THEN LET display == checked_slice(first_trimmed, 0, MaxSnippetBytes)
                      IN  IF display = None THEN None
                          ELSE Some([msg |-> "Unexpected", display |-> display[1] \o <<"U+2026">>])
                 ELSE Some([msg |-> "Unexpected", display |-> first_trimmed])

\* The body of the loop for one node: the diagnostics after it, or None
\* when the body panics.
VisitSyntaxNode(text, diags, node) ==
    IF node.is_error \/ node.is_missing \/ node.kind = "ERROR"
    THEN LET start == node.start_byte
             end == IF node.end_byte <= start THEN min(start + 1, len(text))
                    ELSE node.end_byte
             range == [start |-> position_at(text, start),
                       end |-> position_at(text, end)]
             msg == IF node.is_missing
                    THEN Some([msg |-> "Missing", display |-> <<node.kind>>])
                    ELSE UnexpectedMessage(text, start, end)
         IN  IF msg = None THEN None
             ELSE Some(Append(diags, [range |-> range, severity |-> "ERROR",
                                      source |-> "squirrel-parser",
                                      message |-> msg[1]]))
    ELSE Some(diags)

RECURSIVE SyntaxWalk(_, _, _, _)
\* The walk over the nodes of the tree in the cursor's order, before the
\* i-th node.
SyntaxWalk(text, tree, i, diags) ==
    IF i > Len(tree) THEN Some(diags)
    ELSE LET r == VisitSyntaxNode(text, diags, tree[i])
         IN  IF r = None THEN None ELSE SyntaxWalk(text, tree, i + 1, r[1])

\* compute_syntax_diagnostics on a text and the tree the parser makes of
\* it: Some of the diagnostics, or None when the call panics.
compute_syntax_diagnostics(text, tree) == SyntaxWalk(text, tree, 1, <<>>)

\* n times the character c.
Rep(c, n) == [i \in 1..n |-> c]

\* The texts: letters, then a run of one character, then nothing, a space,
\* or a second line.
SyntaxTexts ==
    {Rep("a", k) \o Rep(c, n) \o tail :
        k \in 0..MaxPad, c \in Chars \ {"\n"}, n \in 0..MaxRun,
        tail \in {<<>>, <<" ">>, <<"\n", "a">>}}

\* The character boundaries of a text.
Boundaries(text) == {len(SubSeq(text, 1, i)) : i \in 0..Len(text)}

\* The trees: the root and one node below it, which is an ERROR node over
\* the text from a boundary to the end, an ERROR node of no width, a
\* missing token, or a node without an error.
SyntaxTrees(text) ==
    {<<SyntaxNode("script", 0, len(text), FALSE, FALSE), n>> :
        n \in {SyntaxNode("ERROR", s, len(text), TRUE, FALSE) :
                    s \in {b \in Boundaries(text) : b <= MaxPad}}
            \cup {SyntaxNode("ERROR", s, s, TRUE, FALSE) : s \in Boundaries(text)}
            \cup {SyntaxNode(";", s, s, FALSE, TRUE) : s \in Boundaries(text)}
            \cup {SyntaxNode("identifier", 0, len(text), FALSE, FALSE)}}

\* One call of compute_syntax_diagnostics.
compute_syntax_diagnostics_call(text, tree) ==
    /\ syntax' = Some([text |-> text, tree |-> tree,
                       result |-> compute_syntax_diagnostics(text, tree)])
    /\ UNCHANGED <<files, globals, last_op, index_calls, resolver, formatter,
                   helpers, semantic, backend_vars>>

\* ================================================================= Backend
\* The handlers of the text synchronisation notifications run as one
\* cooperative task each: a handler runs without interruption from one
\* await to the next, and at an await (the write lock of documents, the
\* send of a notification to the client) another handler may run.
Uris == {"u1", "u2"}

\* The texts of the documents: a clean one and two with a character the
\* grammar has no token for.
DocTexts == {<<"a">>, <<"U+00E9">>, <<"a", " ", "U+20AC">>}

\* parser.parse: an ERROR node from the first character that starts no
\* token to the end of the text.
Parse(text) ==
    LET bad == {i \in 1..Len(text) : text[i] \notin {"a", " ", "\n"}}
        i == CHOOSE i \in bad : \A j \in bad : i <= j
    IN  IF bad = {}
        THEN <<SyntaxNode("script", 0, len(text), FALSE, FALSE),
               SyntaxNode("identifier", 0, len(text), FALSE, FALSE)>>
        ELSE <<SyntaxNode("script", 0, len(text), FALSE, FALSE),
               SyntaxNode("ERROR", len(SubSeq(text, 1, i - 1)), len(text),
                          TRUE, FALSE)>>

\* The diagnostics publish_syntax_diagnostics sends for a text: those of
\* compute_syntax_diagnostics, whose copy in main.rs is the same code.
Diagnostics(text) == compute_syntax_diagnostics(text, Parse(text))[1]

\* A handler that tower-lsp has started: its method, the uri and the text
\* of its parameters (for didChange the text of the last content change,
\* None when there is no change), the await it stands at, and the local
\* variable current of did_change.
Task(method, uri, text) ==
    [method |-> method, uri |-> uri, text |-> text, pc |-> "write",
     current |-> None]

\* The handlers that may be started.
Notifications ==
    {Task("did_open", uri, Some(text)) : uri \in Uris, text \in DocTexts}
        \cup {Task("did_change", uri, text) :
                uri \in Uris, text \in {None} \cup {Some(t) : t \in DocTexts}}
        \cup {Task("did_close", uri, None) : uri \in Uris}

\* The write lock of documents is handed out in the order of the requests:
\* the handler h gets it when it is free and no handler started earlier
\* still waits for it.
WriteLockGranted(h) ==
    /\ documents_lock = None
    /\ \A g \in 1..(h - 1) : tasks[g].pc # "write"

\* client.publish_diagnostics(uri, diags, None) sent by the handler h; store
\* notes the text the documents held for the uri at that moment.
Published(h, uri, text) ==
    [uri |-> uri, diagnostics |-> Diagnostics(text), handler |-> h,
     store |-> IF uri \in DOMAIN documents THEN Some(documents[uri]) ELSE None]

\* tower-lsp starts the handler of a notification: the handler runs up to
\* its first await, documents.write().
notification(task) ==
    /\ tasks' = Append(tasks, task)
    /\ UNCHANGED <<files, globals, last_op, index_calls, resolver, formatter,
                   pure_vars, documents, documents_lock, client>>

\* did_open from the write lock to the await of the publication: the lock
\* is held on.
did_open(h) ==
    /\ tasks[h].method = "did_open"
    /\ tasks[h].pc = "write"
    /\ WriteLockGranted(h)
    /\ documents_lock' = Some(h)
    /\ documents' = Insert(documents, tasks[h].uri, tasks[h].text[1])
    /\ tasks' = [tasks EXCEPT ![h].pc = "publish"]
    /\ UNCHANGED <<files, globals, last_op, index_calls, resolver, formatter,
                   pure_vars, client>>

\* did_open from the publication to its end, where the lock is dropped.
did_open_publish(h) ==
    /\ tasks[h].method = "did_open"
    /\ tasks[h].pc = "publish"
    /\ client' = Append(client, Published(h, tasks[h].uri, tasks[h].text[1]))
    /\ documents_lock' = None
    /\ tasks' = [tasks EXCEPT ![h].pc = "done"]
    /\ UNCHANGED <<files, globals, last_op, index_calls, resolver, formatter,
                   pure_vars, documents>>

\* did_change from the write lock to the await of the publication; the
\* lock is dropped before the publication.  Without an entry for the uri,
\* or without a content change, the handler ends.
did_change(h) ==
    /\ tasks[h].method = "did_change"
    /\ tasks[h].pc = "write"
    /\ WriteLockGranted(h)
    /\ IF tasks[h].uri \in DOMAIN documents /\ tasks[h].text # None
       THEN /\ documents' = [documents EXCEPT ![tasks[h].uri] = tasks[h].text[1]]
            /\ tasks' = [tasks EXCEPT ![h].pc = "publish",
                                      ![h].current = tasks[h].text]
       ELSE /\ tasks' = [tasks EXCEPT ![h].pc = "done"]
            /\ UNCHANGED documents
    /\ UNCHANGED <<files, globals, last_op, index_calls, resolver, formatter,
                   pure_vars, documents_lock, client>>

\* The publication of did_change that reads the text from the store.
did_change_publish_FromStore(h) ==
    /\ tasks[h].method = "did_change"
    /\ tasks[h].pc = "publish"
    /\ client' = Append(client,
                    Published(h, tasks[h].uri,
                              IF tasks[h].uri \in DOMAIN documents
                              THEN documents[tasks[h].uri]
                              ELSE tasks[h].current[1]))
    /\ tasks' = [tasks EXCEPT ![h].pc = "done"]
    /\ UNCHANGED <<files, globals, last_op, index_calls, resolver, formatter,
                   pure_vars, documents, documents_lock>>

\* did_change from the publication to its end.
did_change_publish(h) ==
    /\ tasks[h].method = "did_change"
    /\ tasks[h].pc = "publish"
    /\ client' = Append(client, Published(h, tasks[h].uri, tasks[h].current[1]))
    /\ tasks' = [tasks EXCEPT ![h].pc = "done"]
    /\ UNCHANGED <<files, globals, last_op, index_calls, resolver, formatter,
                   pure_vars, documents, documents_lock>>

\* did_close: the lock is taken and dropped without an await in between.
did_close(h) ==
    /\ tasks[h].method = "did_close"
    /\ tasks[h].pc = "write"
    /\ WriteLockGranted(h)
    /\ documents' = [uri \in DOMAIN documents \ {tasks[h].uri} |-> documents[uri]]
    /\ tasks' = [tasks EXCEPT ![h].pc = "done"]
    /\ UNCHANGED <<files, globals, last_op, index_calls, resolver, formatter,
                   pure_vars, documents_lock, client>>

\* ---------------------------------------------------------- specification
Init ==
    /\ files = <<>>
    /\ globals = {}
    /\ last_op = "new"
    /\ index_calls = 0
    /\ resolver = None
    /\ formatter = None
    /\ helpers = None
    /\ semantic = None
    /\ syntax = None
    /\ documents = <<>>
    /\ documents_lock = None
    /\ tasks = <<>>
    /\ client = <<>>

Next ==
    \/ \E in \in IndexInputs : index_file(in[1], in[2])
    \/ build_inheritance_graph

Spec == Init /\ [][Next]_vars

\* The symbol resolver run on one text.
NextResolver ==
    \/ \E text \in Texts : compute_symbol_diagnostics(text)
    \/ \E text \in Texts, known_globals \in GlobalSets :
            compute_symbol_diagnostics_with_globals(text, known_globals)

SpecResolver == Init /\ [][NextResolver]_vars

\* One call of format_document.
NextFormatter ==
    \/ \E source \in Sources, options \in AllOptions : format_document(source, options)
    \/ format_document_loop
    \/ format_document_return

SpecFormatter == Init /\ [][NextFormatter]_vars

\* One call of a position helper: every byte offset up to one past the
\* longest text, every position up to one line and one column past it.
NextHelpers ==
    \/ /\ helpers = None
       /\ \E text \in HelperTexts, byte_offset \in 0..(4 * MaxChars + 1) :
                position_at_call(text, byte_offset)
    \/ /\ helpers = None
       /\ \E text \in HelperTexts, line \in 0..(MaxChars + 1),
                character \in 0..(2 * MaxChars + 1) :
                byte_offset_at_call(text, Position_new(line, character))

SpecHelpers == Init /\ [][NextHelpers]_vars

\* One call of compute_semantic_tokens.
NextSemantic ==
    /\ semantic = None
    /\ \E input \in SemanticInputs : compute_semantic_tokens_call(input)

SpecSemantic == Init /\ [][NextSemantic]_vars

\* One call of compute_syntax_diagnostics.
NextSyntax ==
    /\ syntax = None
    /\ \E text \in SyntaxTexts : \E tree \in SyntaxTrees(text) :
            compute_syntax_diagnostics_call(text, tree)

SpecSyntax == Init /\ [][NextSyntax]_vars

\* The Backend: at most MaxHandlers notifications, whose handlers run
\* interleaved at their awaits.
NextBackend ==
    \/ /\ Len(tasks) < MaxHandlers
       /\ \E task \in Notifications : notification(task)
    \/ \E h \in 1..Len(tasks) : did_open(h)
    \/ \E h \in 1..Len(tasks) : did_open_publish(h)
    \/ \E h \in 1..Len(tasks) : did_change(h)
    \/ \E h \in 1..Len(tasks) : did_change_publish(h)
    \/ \E h \in 1..Len(tasks) : did_close(h)

SpecBackend == Init /\ [][NextBackend]_vars

\* ================================================================= claims
\* The four spellings of a script path.
Spellings(k) == {k, <<"S">> \o k, k \o <<"N">>, <<"S">> \o k \o <<"N">>}

\* Script paths handed to the lookups: every spelling of every key the
\* files can get, and of one path that is never indexed.
QueryPaths ==
    UNION {Spellings(extract_script_path(f)) : f \in FilePaths \ {OutsideFile}}
        \cup {<<"S", "c">>}

\* Number of positions of s that hold x.
Occurrences(s, x) == Cardinality({i \in 1..Len(s) : s[i] = x})

Built == last_op = "build_inheritance_graph"

RECURSIVE ParentClosure(_, _)
\* The keys reached from the keys in ks by following parent links any
\* number of times (ks included), as a least fixed point.
ParentClosure(fs, ks) ==
    LET next == ks \cup ({fs[k].parent[1] : k \in {x \in ks : fs[x].parent # None}}
                            \cap DOMAIN fs)
    IN  IF next = ks THEN ks ELSE ParentClosure(fs, next)

\* C1: after a call sequence that ends with build_inheritance_graph, every
\* entry c with parent Some(p) has p as a key of the index and p's children
\* list holds c's script path exactly once.
C1_ParentListsChildOnce ==
    Built =>
        \A c \in DOMAIN files :
            files[c].parent # None =>
                /\ files[c].parent[1] \in DOMAIN files
                /\ Occurrences(files[files[c].parent[1]].children,
                               files[c].script_path) = 1

\* A graph built again after the parent was indexed a second time.
C1_Witness ==
    /\ Built
    /\ index_calls >= 3
    /\ \E c, q \in DOMAIN files : c # q /\ files[c].parent = Some(q)

\* C2: after a call sequence that ends with build_inheritance_graph, every
\* script path in an entry's children names an entry whose parent is that
\* entry's script path.
C2_ChildrenPointBack ==
    Built =>
        \A q \in DOMAIN files :
            \A i \in 1..Len(files[q].children) :
                /\ files[q].children[i] \in DOMAIN files
                /\ files[files[q].children[i]].parent = Some(files[q].script_path)

\* C3: no entry has its own script path as parent.
C3_NoSelfParent ==
    \A k \in DOMAIN files : files[k].parent # Some(files[k].script_path)

\* C4: has_method(p, m) holds exactly when p is indexed and m is a member of
\* p's entry or of an entry reached from it over parent links.
C4_HasMethodIffOwnOrInherited ==
    \A path \in QueryPaths, m \in Methods :
        has_method(files, path, m) <=>
            /\ GetKey(files, path) # None
            /\ \E k \in ParentClosure(files, {GetKey(files, path)[1]}) :
                    m \in files[k].members

\* A method found only in an ancestor, and one missing from the whole chain.
C4_Witness ==
    \E path \in QueryPaths :
        /\ GetKey(files, path) # None
        /\ "m1" \notin files[GetKey(files, path)[1]].members
        /\ has_method(files, path, "m1")
        /\ ~has_method(files, path, "m2")

\* C5: the loop of get_ancestors ends within |files| + 1 iterations, parent
\* cycles included, and returns at most |files| entries.
C5_AncestorsTerminate ==
    \A path \in QueryPaths :
        /\ GetAncestorsRun(files, path).done
        /\ Len(get_ancestors(files, path)) <= Cardinality(DOMAIN files)

\* Is key k on a cycle of parent links?
OnCycle(fs, k) ==
    /\ fs[k].parent # None
    /\ fs[k].parent[1] \in DOMAIN fs
    /\ k \in ParentClosure(fs, {fs[k].parent[1]})

\* A walk started on a cycle of two files.
C5_Witness ==
    \E k \in DOMAIN files :
        /\ OnCycle(files, k)
        /\ files[k].parent # Some(k)
        /\ Len(get_ancestors(files, k)) = 2

\* C6: get_ancestors(p) never returns the entry of p itself.
C6_AncestorsExcludeSelf ==
    \A path \in QueryPaths :
        GetKey(files, path) # None =>
            ~InSeq(GetKey(files, path)[1], get_ancestors(files, path))

\* C7: a file indexed under key k is returned by get for each spelling of k.
C7_GetEverySpelling ==
    \A k \in DOMAIN files :
        \A sp \in Spellings(extract_script_path(files[k].file_path)) :
            GetKey(files, sp) = Some(k)
\* The diagnostics of s that carry the code.
WithCode(s, code) == {i \in 1..Len(s) : s[i].code = code}

\* The inherit calls whose indexing yields the entry stored under key k.
TextsOf(fs, k) ==
    {call \in InheritCalls :
        /\ call.class_name = fs[k].name
        /\ Some(normalize_script_path(call.parent_path)) = fs[k].parent_path
        /\ call.members = fs[k].members}

\* C8: with the graph built, analyzing the text of a file that lies on a
\* cycle of parent links reports exactly one circular-inheritance error for
\* its inherit call; an inherit call whose class name is neither the name of
\* the parent nor of an entry in the parent's ancestor chain gets none.
C8_CycleReportedOnce ==
    Built =>
        /\ \A k \in DOMAIN files :
                OnCycle(files, k) =>
                    \A call \in TextsOf(files, k) :
                        Cardinality(WithCode(analyze_inheritance(files, <<call>>),
                                             "circular-inheritance")) = 1
        /\ \A call \in InheritCalls :
                LET q == normalize_script_path(call.parent_path) IN
                (/\ q \in DOMAIN files
                 /\ \A k \in ParentClosure(files, {q}) : files[k].name # call.class_name)
                    => WithCode(analyze_inheritance(files, <<call>>),
                                "circular-inheritance") = {}

\* Hook calls for the method check: <<target, first parameter, accesses>>.
Access(base, member_name) == [base |-> base, member_name |-> member_name]

AccessLists ==
    {<<>>}
        \cup {<<Access(b, m)>> : b \in {"o", "q"}, m \in Methods \cup {"SuperName"}}
        \cup {<<Access("o", "m2"), Access("o", "SuperName")>>,
              <<Access("q", "m2"), Access("o", "m1")>>,
              <<Access("o", "m2"), Access("o", "m2")>>}

TargetPaths == {<<"S", "a">>, <<"b", "N">>, <<"c">>}

MethodHooks ==
    [hook_type : {"Base"}, target_path : TargetPaths,
     hook_param_name : {Some("o")}, accesses : AccessLists]
        \cup [hook_type : {"Base"}, target_path : TargetPaths,
              hook_param_name : {None}, accesses : {<<Access("o", "m2")>>}]

\* Is m a member of the entry under key k or of an entry reached from it
\* over parent links?
OwnOrInherited(fs, k, m) ==
    \E a \in ParentClosure(fs, {k}) : m \in fs[a].members

\* C9: for a hook whose target resolves and whose function has first
\* parameter p, method-not-found is reported on the access b.M exactly when
\* b = p, M is not SuperName and M is no method of the target or of its
\* ancestors; a hook whose target does not resolve gets no such error.
C9_MethodNotFoundExactly ==
    \A hook \in MethodHooks :
        LET diags == analyze_hooks(files, <<hook>>)
            errors == WithCode(diags, "method-not-found")
            target == GetKey(files, hook.target_path)
        IN  IF target = None
            THEN errors = {}
            ELSE hook.hook_param_name # None =>
                    \A i \in 1..Len(hook.accesses) :
                        Cardinality({e \in errors : diags[e].at = i})
                            = IF /\ hook.accesses[i].base = hook.hook_param_name[1]
                                 /\ hook.accesses[i].member_name # "SuperName"
                                 /\ ~OwnOrInherited(files, target[1],
                                                    hook.accesses[i].member_name)
                              THEN 1 ELSE 0

\* A hook on a class that has m1 from an ancestor only: o.m1 passes, o.m2 is
\* reported, o.SuperName is not.
C9_Witness ==
    \E t \in TargetPaths :
        LET hook == [hook_type |-> "Base", target_path |-> t,
                     hook_param_name |-> Some("o"),
                     accesses |-> <<Access("o", "m2"), Access("o", "SuperName")>>]
            target == GetKey(files, t)
        IN  /\ target # None
            /\ "m1" \notin files[target[1]].members
            /\ has_member(files, t, "m1")
            /\ Len(validate_hook_methods(files, hook)) = 1

TypeHooks ==
    [hook_type : HookTypes, target_path : TargetPaths,
     hook_param_name : {Some("o")}, accesses : {<<>>}]

\* Does some entry have the entry under key k as its parent?
HasChild(fs, k) ==
    \E c \in DOMAIN fs : fs[c].parent = Some(fs[k].script_path)

\* C10: for a hook whose target resolves, hook-type-suggestion is reported
\* exactly when the kind is Exact and the target currently has a child, and
\* hook-type-no-descendants exactly when the kind is Descendants and the
\* target has no child; the other kinds get neither.  Stated on a built
\* graph, where parent and children are meant to agree.
C10_HookTypeWarnings ==
    Built =>
        \A hook \in TypeHooks :
            LET diags == analyze_hooks(files, <<hook>>)
                target == GetKey(files, hook.target_path)
            IN  target # None =>
                    /\ WithCode(diags, "hook-type-suggestion") # {}
                            <=> /\ hook.hook_type = "Exact"
                                /\ HasChild(files, target[1])
                    /\ WithCode(diags, "hook-type-no-descendants") # {}
                            <=> /\ hook.hook_type = "Descendants"
                                /\ ~HasChild(files, target[1])
                    /\ hook.hook_type \in {"Base", "NewObject", "NewObjectOnce"}
                            => diags = <<>>

\* The warnings follow the target's children list in every state.
HookTypeFollowsChildrenList ==
    \A hook \in TypeHooks :
        LET diags == analyze_hooks(files, <<hook>>)
            target == GetKey(files, hook.target_path)
        IN  target # None =>
                /\ WithCode(diags, "hook-type-suggestion") # {}
                        <=> /\ hook.hook_type = "Exact"
                            /\ Len(files[target[1]].children) >= 1
                /\ WithCode(diags, "hook-type-no-descendants") # {}
                        <=> /\ hook.hook_type = "Descendants"
                            /\ Len(files[target[1]].children) = 0
                /\ hook.hook_type \in {"Base", "NewObject", "NewObjectOnce"}
                        => diags = <<>>

\* On a built graph the children list holds every entry that has the
\* target as parent.
ChildrenListCoversChildren ==
    Built =>
        \A k \in DOMAIN files :
            HasChild(files, k) => files[k].children # <<>>

\* -------------------------------------------------- symbol resolver claims
\* The diagnostics of the run with the given message at the given range.
DiagnosticsAt(kind, range) ==
    LET ds == resolver[1].self.diagnostics
    IN  {j \in 1..Len(ds) : ds[j].range = range /\ ds[j].message[1] = kind}

\* Is the name among the workspace globals handed to the resolver?
IsGlobal(name) ==
    LET g == resolver[1].self.known_globals
    IN  g # None /\ name \in g[1]

\* Is the node at path the callee of a call expression?
IsCallee(root, path) ==
    /\ Len(path) >= 1
    /\ NodeAt(root, SubSeq(path, 1, Len(path) - 1)).kind = "call_expression"
    /\ path[Len(path)] = 1

\* The declarations of the run that are reported as unused.
ReportedUnused(d) == DiagnosticsAt("Unused variable", d.range) # {}

\* The identifier references of the run, and its declarations.
Checked == {resolver[1].self.checked[i] : i \in 1..Len(resolver[1].self.checked)}

Declared == {resolver[1].self.declared[i] : i \in 1..Len(resolver[1].self.declared)}

\* Has the reference c no binding: not built-in, not a local of its
\* context, not a global, not a possibly inherited method that is called?
Unbound(c) ==
    /\ c.name \notin BUILTINS
    /\ c.name \notin c.locals
    /\ ~IsGlobal(c.name)
    /\ ~(c.has_parent /\ IsCallee(resolver[1].text, c.at))

IsReference(root, path) ==
    /\ Len(path) >= 1
    /\ LET node == NodeAt(root, path)
           parent == NodeAt(root, SubSeq(path, 1, Len(path) - 1))
           i == path[Len(path)]
       IN  /\ node.kind = "identifier"
           /\ ~(/\ parent.kind \in {"local_declaration", "function_declaration",
                                    "parameter", "table_slot"}
                /\ \A j \in 1..(i - 1) : parent.children[j].kind # "identifier")
           /\ node.field \notin {"index", "value"}
           /\ parent.kind # "catch_statement"
           /\ ~(parent.kind = "deref_expression" /\ i > 1)
           /\ ~(parent.kind = "update_expression" /\ i = 1)

\* The references to name written in the scope (with the scopes nested in
\* it) that the node at path scope opens.
ReferencesIn(root, scope, name) ==
    {p \in PathsOf(NodeAt(root, scope), scope) :
        IsReference(root, p) /\ NodeAt(root, p).text = name}

RECURSIVE Before(_, _)
\* Does the node at path p start before the node at path q in the text?
Before(p, q) ==
    IF p = <<>> THEN q # <<>>
    ELSE IF q = <<>> THEN FALSE
    ELSE IF Head(p) # Head(q) THEN Head(p) < Head(q)
    ELSE Before(Tail(p), Tail(q))

\* The declaration d is reported by one "Unused variable" diagnostic, a
\* hint for a parameter and a warning for the other kinds.
ReportedOnce(d) ==
    /\ Cardinality(DiagnosticsAt("Unused variable", d.range)) = 1
    /\ \A j \in DiagnosticsAt("Unused variable", d.range) :
            /\ resolver[1].self.diagnostics[j].message[2] = d.name
            /\ resolver[1].self.diagnostics[j].severity
                    = IF d.kind = "Parameter" THEN "HINT" ELSE "WARNING"

\* Is the name of d referenced after d in the context that declares d?
ReferencedAfter(d) ==
    \E c \in Checked : c.name = d.name /\ c.scope = d.scope /\ Before(d.range, c.at)

IsPrefix(p, q) == Len(p) <= Len(q) /\ SubSeq(q, 1, Len(p)) = p

\* Is the reference c written after the declaration d in a scope nested in
\* the scope of d, with no table literal between the two scopes?
NestedReference(d, c) ==
    /\ c.name = d.name
    /\ Before(d.range, c.at)
    /\ IsPrefix(d.scope, c.scope)
    /\ c.scope # d.scope
    /\ \A n \in Len(d.scope)..Len(c.at) :
            NodeAt(resolver[1].text, SubSeq(c.at, 1, n)).kind # "table"

TableReference(d, p) ==
    /\ p \in ReferencesIn(resolver[1].text, d.scope, d.name)
    /\ Before(d.range, p)
    /\ \E n \in (Len(d.scope) + 1)..(Len(p) - 1) :
            /\ NodeAt(resolver[1].text, SubSeq(p, 1, n)).kind = "table_slot"
            /\ p[n + 1] > 1

\* C14: a local or parameter whose references are all inside a table
\* literal of its scope, as a slot value or in the body of a slot's
\* function, is not reported as unused.  Stated of the names that are not
\* built-in, for which a recorded reference counts as a use.
C14_TableUseCounts ==
    resolver # None =>
        \A d \in Declared :
            (/\ d.kind \in {"Local", "Parameter"}
             /\ d.name \notin BUILTINS
             /\ \E p \in ReferencesIn(resolver[1].text, d.scope, d.name) : TRUE
             /\ \A p \in ReferencesIn(resolver[1].text, d.scope, d.name) :
                    TableReference(d, p))
                => ~ReportedUnused(d)

RECURSIVE ReplaceAt(_, _, _)
\* The tree root with the node at path replaced by node.
ReplaceAt(root, path, node) ==
    IF path = <<>> THEN node
    ELSE [root EXCEPT !.children[Head(path)] =
                ReplaceAt(root.children[Head(path)], Tail(path), node)]

\* The paths of the table literals of the analyzed text.
TablePaths ==
    {p \in PathsOf(resolver[1].text, <<>>) : NodeAt(resolver[1].text, p).kind = "table"}

\* The slot list of the table at path t, and the orderings of its slots.
SlotsPath(t) == Append(t, 2)

Orderings(t) == Permutations(1..Len(NodeAt(resolver[1].text, SlotsPath(t)).children))

\* The analyzed text with the slots of the table at t written in the order
\* f: the slot at place i is the slot that was at place f[i].
Reordered(t, f) ==
    LET slots == NodeAt(resolver[1].text, SlotsPath(t))
    IN  ReplaceAt(resolver[1].text, SlotsPath(t),
                  [slots EXCEPT !.children = [i \in DOMAIN f |-> slots.children[f[i]]]])

\* Where the node at path p of the analyzed text is found in Reordered(t, f).
Moved(t, f, p) ==
    LET n == Len(SlotsPath(t))
    IN  IF IsPrefix(SlotsPath(t), p) /\ Len(p) > n
        THEN [p EXCEPT ![n + 1] = CHOOSE i \in DOMAIN f : f[i] = p[n + 1]]
        ELSE p

\* The diagnostics of a run, without their order.
DiagnosticSet(ds) == {ds[j] : j \in 1..Len(ds)}

\* The names of the slots of the table node: the key of `k = v`, the name
\* of a function slot.
SiblingNames(table) ==
    LET slots == table.children[2].children
    IN  {IF slots[i].children[1].kind = "identifier"
         THEN slots[i].children[1].text
         ELSE slots[i].children[1].children[2].text : i \in 1..Len(slots)}

\* C15: the diagnostics of a table literal or inherit body do not depend on
\* the order of its slots (each diagnostic moves with its slot), and no
\* reference inside a table to the name of one of its slots, written before
\* or after it, is reported as undeclared.
C15_SlotOrderIrrelevant ==
    resolver # None =>
        LET ds == resolver[1].self.diagnostics
        IN  \A t \in TablePaths :
                /\ \A f \in Orderings(t) :
                        LET other == analyze(
                                SymbolResolver_new(resolver[1].self.known_globals),
                                Reordered(t, f)).diagnostics
                        IN  /\ Len(other) = Len(ds)
                            /\ DiagnosticSet(other)
                                    = {[d EXCEPT !.range = Moved(t, f, d.range)] :
                                            d \in DiagnosticSet(ds)}
                /\ \A j \in 1..Len(ds) :
                        (/\ ds[j].message[1] = "Undeclared variable"
                         /\ IsPrefix(t, ds[j].range))
                            => ds[j].message[2] \notin SiblingNames(NodeAt(resolver[1].text, t))

\* A run on a table whose first slot is a function that calls the slot
\* written after it, which in turn calls an undeclared name: one error, for
\* the undeclared name only.
C15_Witness ==
    /\ resolver # None
    /\ \E t \in TablePaths :
            LET slots == NodeAt(resolver[1].text, SlotsPath(t)).children
                ds == resolver[1].self.diagnostics
            IN  /\ Len(slots) >= 2
                /\ slots[1].children[1].kind = "function_declaration"
                /\ slots[2].children[1].kind = "function_declaration"
                /\ \E c \in Checked :
                        /\ IsPrefix(Append(SlotsPath(t), 1), c.at)
                        /\ c.name = slots[2].children[1].children[2].text
                        /\ c.name # slots[1].children[1].children[2].text
                        /\ DiagnosticsAt("Undeclared variable", c.at) = {}
                /\ \E j \in 1..Len(ds) :
                        /\ ds[j].message[1] = "Undeclared variable"
                        /\ IsPrefix(Append(SlotsPath(t), 2), ds[j].range)

\* Is l a variable of a foreach loop written in the scope of the local or
\* parameter d, after d, and under the name of d?
Shadows(l, d) ==
    /\ d.kind \in {"Local", "Parameter"}
    /\ l.kind = "LoopVariable"
    /\ NodeAt(resolver[1].text, l.scope).kind = "foreach_statement"
    /\ l.name = d.name
    /\ IsPrefix(d.scope, l.scope)
    /\ d.scope # l.scope
    /\ Before(d.range, l.scope)

\* Is the node at path p inside the body of the foreach loop at path loop?
InLoopBody(loop, p) ==
    /\ IsPrefix(loop, p)
    /\ Len(p) > Len(loop)
    /\ NodeAt(resolver[1].text, SubSeq(p, 1, Len(loop) + 1)).kind = "block"

\* An outer local whose name is referenced only inside the body of a loop
\* that shadows it is reported unused.
OuterLocalStillReported ==
    resolver # None =>
        \A d, l \in Declared :
            (/\ Shadows(l, d)
             /\ \A p \in ReferencesIn(resolver[1].text, d.scope, d.name) :
                    InLoopBody(l.scope, p))
                => ReportedUnused(d)

\* A loop variable whose name is referenced nowhere in its foreach
\* statement is reported unused, whatever uses the local it shadows has.
UnusedLoopVariableReported ==
    resolver # None =>
        \A d, l \in Declared :
            (/\ Shadows(l, d)
             /\ ReferencesIn(resolver[1].text, l.scope, l.name) = {})
                => ReportedUnused(l)

\* C16: a foreach variable and the outer local of the same name are
\* accounted independently: a reference inside the loop is a use of the loop
\* variable only, so the outer local referenced nowhere outside the loop is
\* reported unused, and the loop variable not referenced in the loop is
\* reported unused whatever uses the outer local has.
C16_ShadowingIndependent ==
    OuterLocalStillReported /\ UnusedLoopVariableReported

\* The paths of the foreach statements of the analyzed text.
ForeachPaths ==
    {p \in PathsOf(resolver[1].text, <<>>) :
        NodeAt(resolver[1].text, p).kind = "foreach_statement"}

\* The references to name in the collection expression of the loop.
CollectionReferences(loop, name) ==
    {p \in ReferencesIn(resolver[1].text, loop, name) :
        NodeAt(resolver[1].text, SubSeq(p, 1, Len(loop) + 1)).field = "collection"}

\* Is name bound in the context that encloses the loop: as a top-level
\* `name <- ...`, as a declaration made before the loop in a scope around
\* it, or as a slot of a table around it?
EnclosingDeclares(loop, name) ==
    \/ name \in extract_file_symbols(resolver[1].text)
    \/ \E d \in Declared :
            /\ d.name = name
            /\ IsPrefix(d.scope, loop)
            /\ d.scope # loop
            /\ Before(d.range, loop)
    \/ \E t \in TablePaths :
            IsPrefix(t, loop) /\ name \in SiblingNames(NodeAt(resolver[1].text, t))

\* C17: the identifiers of the collection expression of a foreach loop are
\* resolved in the context that encloses the loop: a loop variable whose
\* name is referenced in the collection only is reported unused, and an
\* identifier of the collection that nothing outside the loop binds is
\* reported as undeclared, also when it is the name of a loop variable.
C17_CollectionInEnclosingContext ==
    resolver # None =>
        \A loop \in ForeachPaths :
            /\ \A l \in Declared :
                    (/\ l.scope = loop
                     /\ \A p \in ReferencesIn(resolver[1].text, loop, l.name) :
                            p \in CollectionReferences(loop, l.name))
                        => ReportedUnused(l)
            /\ \A name \in Idents :
                    \A p \in CollectionReferences(loop, name) :
                        (/\ name \notin BUILTINS
                         /\ ~EnclosingDeclares(loop, name)
                         /\ ~IsGlobal(name)
                         /\ ~IsCallee(resolver[1].text, p))
                            => DiagnosticsAt("Undeclared variable", p) # {}

\* The same, of the collections that name no variable of their loop: there
\* the loop's context and the enclosing one resolve alike.
CollectionResolvedWhenNotLoopVariable ==
    resolver # None =>
        \A loop \in ForeachPaths :
            \A name \in Idents :
                \A p \in CollectionReferences(loop, name) :
                    (/\ name \notin BUILTINS
                     /\ \A l \in Declared : l.scope = loop => l.name # name
                     /\ ~EnclosingDeclares(loop, name)
                     /\ ~IsGlobal(name)
                     /\ ~IsCallee(resolver[1].text, p))
                        => DiagnosticsAt("Undeclared variable", p) # {}

\* ------------------------------------------------------------- formatter
\* Has the format_document call returned?
Returned == formatter # None /\ formatter[1].output # None

\* How often the piece occurs in the text.
Count(text, piece) == Cardinality({i \in 1..Len(text) : text[i] = piece})

\* C18: the output of format_document holds one synthesized `}` for each
\* synthesized `{`: it has as many `{` more than the source as it has `}`
\* more, so balanced braces stay balanced, also when the statement that an
\* if or else guards has no `;`.
C18_SyntheticBracesBalanced ==
    (Returned /\ formatter[1].source \in WellFormed) =>
        LET source == formatter[1].source
            output == formatter[1].output[1]
        IN  Count(output, "{") - Count(source, "{")
                = Count(output, "}") - Count(source, "}")

\* The same of the texts in which every if and else body that has no braces
\* ends in `;`, is not itself an if, and is the last one opened: there the
\* `;` closes the synthesized brace.
SyntheticBracesBalancedWhenTerminated ==
    (Returned /\ formatter[1].source \in
            {Spaced(s) : s \in FormattedStatements \
                {<<"if", "(", "x", ")", "x">>,
                 <<"if", "(", "x", ")", "if", "(", "x", ")", "x", ";">>}}) =>
        LET source == formatter[1].source
            output == formatter[1].output[1]
        IN  /\ Count(output, "{") - Count(source, "{")
                    = Count(output, "}") - Count(source, "}")

\* C19: formatting the output of format_document again, with the same
\* options, gives the same text, for every source without error nodes.
C19_Idempotent ==
    (Returned /\ formatter[1].source \in WellFormed) =>
        FormatDocument(formatter[1].output[1], formatter[1].options)
            = formatter[1].output[1]

\* The pieces of a text that are not whitespace.
Emitted(text) == SelectSeq(text, LAMBDA piece : piece \notin Whitespace)

\* What one turn of the loop of format_document may do with its token.
TokenPreserved ==
    LET call == formatter[1]
        token == call.tokens[call.idx + 1]
        before == Emitted(call.f.output)
        after == Emitted(formatter'[1].f.output)
        text == Emitted(token.pieces)
        written == Len(before) + Len(text)
    IN  IF token.kind = "Blankline" THEN after = before
        ELSE \/ /\ Len(after) >= written
                /\ SubSeq(after, 1, Len(before)) = before
                /\ SubSeq(after, Len(before) + 1, written) = text
                /\ \A k \in (written + 1)..Len(after) : after[k] \in {"{", "}"}
             \/ /\ after = before
                /\ token.text = ","
                /\ call.idx + 2 <= Len(call.tokens)
                /\ call.tokens[call.idx + 2].text = "}"
                /\ in_object_top_level(call.f)

MultilineCommentWritten ==
    /\ formatter # None /\ formatter' # None
    /\ formatter'[1].idx = formatter[1].idx + 1
    /\ LET token == formatter[1].tokens[formatter[1].idx + 1]
       IN  token.kind = "Comment" /\ Len(lines(token.pieces)) > 1

\* The last lines of the output are the lines of the comment after its
\* first.
LinesAfterFirstVerbatim ==
    LET text == lines(formatter[1].tokens[formatter[1].idx + 1].pieces)
        output == lines(formatter'[1].f.output)
        n == Len(text)
        m == Len(output)
    IN  /\ m >= n
        /\ \A k \in 2..n : output[m - n + k] = text[k]

\* C21: when write_comment has written a block comment of several lines,
\* the output ends with the lines of the comment after the first, each one
\* as it is in the source, as many as in the source and in the same order,
\* empty lines included.
C21_BlockCommentLinesVerbatim ==
    [][MultilineCommentWritten => LinesAfterFirstVerbatim]_vars

\* The same of the comments that have no empty line inside.
BlockCommentLinesVerbatimWhenNotEmpty ==
    [][(/\ MultilineCommentWritten
        /\ LET text == lines(formatter[1].tokens[formatter[1].idx + 1].pieces)
           IN  \A k \in 1..Len(text) : text[k] # <<>>)
            => LinesAfterFirstVerbatim]_vars

\* A turn of the loop of format_document that writes a `;`.
SemicolonWritten ==
    /\ formatter # None /\ formatter' # None
    /\ formatter'[1].idx = formatter[1].idx + 1
    /\ LET token == formatter[1].tokens[formatter[1].idx + 1]
       IN  token.text = ";" /\ token.kind = "Symbol"

\* C25: a `;` inside a parenthesis (the header of a for statement) closes
\* no synthesized block; a `;` that ends a statement closes every
\* synthesized block opened for that statement, so that no synthetic frame
\* is left on top of the brace stack for the statements that follow.
C25_SyntheticBlockEnclosesOneStatement ==
    [][SemicolonWritten =>
            IF formatter[1].f.paren_depth > 0
            THEN formatter'[1].f.braces = formatter[1].f.braces
            ELSE LET braces == formatter'[1].f.braces
                 IN  braces = <<>> \/ ~Last(braces).is_synthetic]_vars

\* The same of a `;` that is outside every parenthesis, is not followed by
\* a line comment on its line, and has at most one synthetic frame open.
SyntheticBlockClosedAtPlainSemicolon ==
    [][(/\ SemicolonWritten
        /\ formatter[1].f.paren_depth = 0
        /\ LET call == formatter[1]
               remaining == SubSeq(call.tokens, call.idx + 2, Len(call.tokens))
               braces == call.f.braces
           IN  /\ ~is_line_comment(first(remaining))
               /\ Len(braces) < 2 \/ ~braces[Len(braces) - 1].is_synthetic)
            => LET braces == formatter'[1].f.braces
               IN  braces = <<>> \/ ~Last(braces).is_synthetic]_vars

\* The tokens open and close the pair of symbols in a balanced way: no
\* prefix closes more than it opens, and the whole closes all it opens.
BalancedPair(tokens, open, close) ==
    LET Opened(n) == Cardinality({i \in 1..n : tokens[i].text = open})
        Closed(n) == Cardinality({i \in 1..n : tokens[i].text = close})
    IN  /\ \A n \in 1..Len(tokens) : Closed(n) <= Opened(n)
        /\ Closed(Len(tokens)) = Opened(Len(tokens))

Balanced(tokens) ==
    /\ BalancedPair(tokens, "{", "}")
    /\ BalancedPair(tokens, "(", ")")
    /\ BalancedPair(tokens, "[", "]")

\* The loop of format_document has written the last token of a balanced
\* input.
LastTokenWritten ==
    /\ formatter # None
    /\ formatter[1].idx = Len(formatter[1].tokens)
    /\ Balanced(formatter[1].tokens)

\* C28: after the last token of a balanced input the brace, paren, bracket
\* and ternary stacks of the formatter are empty, the paren and bracket
\* depths are 0, and indent_level is 0.
C28_StacksEmptyAtEnd ==
    LastTokenWritten =>
        LET f == formatter[1].f
        IN  /\ f.braces = <<>>
            /\ f.parens = <<>>
            /\ f.brackets = <<>>
            /\ f.ternaries = <<>>
            /\ f.paren_depth = 0
            /\ f.bracket_depth = 0
            /\ f.indent_level = 0

\* The part of it that is about the parentheses.
ParensEmptyAtEnd ==
    LastTokenWritten =>
        formatter[1].f.parens = <<>> /\ formatter[1].f.paren_depth = 0

\* The indent that is left at the end is the one of the brace frames left
\* open and of the multiline conditions of if and for statements.
IndentLeftAtEnd ==
    LastTokenWritten =>
        LET call == formatter[1]
            multiline_headers ==
                {i \in 1..(Len(call.tokens) - 2) :
                    /\ call.tokens[i].text \in {"if", "for"}
                    /\ call.tokens[i + 1].text = "("
                    /\ call.tokens[i + 2].preceded_by_newline
                    /\ call.tokens[i + 2].text \notin {")", "[", "{"}}
        IN  call.f.indent_level
                = Len(call.f.braces) + Cardinality(multiline_headers)

\* The byte offsets of the text that lie on a character boundary.
CharBoundaries(text) == {len(SubSeq(text, 1, k)) : k \in 0..Len(text)}

\* C23: position_at followed by byte_offset_at gives back every byte
\* offset that lies on a character boundary of the text, and position_at
\* of an offset beyond the end of the text is position_at of its end.
C23_PositionRoundTrip ==
    (helpers # None /\ helpers[1].op = "position_at") =>
        LET text == helpers[1].text
            b == helpers[1].byte_offset
            position == helpers[1].position
        IN  /\ b \in CharBoundaries(text)
                => byte_offset_at(text, position) = Some(b)
            /\ b > len(text) => position = position_at(text, len(text))

\* position_at was called with an offset behind a character of two bytes
\* and a surrogate pair, on the second line of the text.
C23_Witness ==
    /\ helpers # None /\ helpers[1].op = "position_at"
    /\ LET text == helpers[1].text
       IN  /\ helpers[1].byte_offset \in CharBoundaries(text)
           /\ helpers[1].position.line = 1
           /\ helpers[1].position.character = 3
           /\ \E i, j \in 1..Len(text) :
                    text[i] = "U+1F600" /\ text[j] = "U+00E9"

RECURSIVE Decoded(_, _, _, _)
\* What a client reads from the delta-encoded tokens from the i-th on: the
\* line and start column of each, every delta taken from the start of the
\* token before it.
Decoded(semantic_tokens, i, line, start) ==
    IF i > Len(semantic_tokens) THEN <<>>
    ELSE LET t == semantic_tokens[i]
             l == line + t.delta_line
             s == IF t.delta_line = 0 THEN start + t.delta_start ELSE t.delta_start
         IN  <<[line |-> l, start |-> s, length |-> t.length]>>
                \o Decoded(semantic_tokens, i + 1, l, s)

\* The lines of one token of the text, each with its line number, its
\* UTF-16 start column and its UTF-16 length.
TrueLines(text, token) ==
    LET start_pos == position_at(text, token.start_byte)
        parts == split(str_slice(text, token.start_byte, token.end_byte))
    IN  [i \in 1..Len(parts) |->
            [line |-> start_pos.line + i - 1,
             start |-> IF i = 1 THEN start_pos.character ELSE 0,
             length |-> encode_utf16_count(parts[i])]]

RECURSIVE TruePositions(_, _, _)
TruePositions(text, tokens, i) ==
    IF i > Len(tokens) THEN <<>>
    ELSE TrueLines(text, tokens[i]) \o TruePositions(text, tokens, i + 1)

\* C24: compute_semantic_tokens emits one token per source line of every
\* token, and decoding the deltas gives the true line and UTF-16 start
\* column of every emitted token, also of a token that follows a comment of
\* several lines on the comment's last line.
C24_DeltasDecodeToTruePositions ==
    semantic # None =>
        Decoded(semantic[1].semantic_tokens, 1, 0, 0)
            = TruePositions(semantic[1].text, semantic[1].tokens, 1)

\* What holds of the code: one token per source line of every token, each
\* with the true line and length.
OneTokenPerLineWithTrueLine ==
    semantic # None =>
        LET d == Decoded(semantic[1].semantic_tokens, 1, 0, 0)
            t == TruePositions(semantic[1].text, semantic[1].tokens, 1)
        IN  /\ Len(d) = Len(t)
            /\ \A i \in 1..Len(d) : d[i].line = t[i].line /\ d[i].length = t[i].length

\* A token follows a comment of several lines on the comment's last line.
TokenAfterMultilineComment ==
    /\ semantic # None
    /\ \E i \in 2..Len(semantic[1].tokens) :
          LET text == semantic[1].text
              tokens == semantic[1].tokens
          IN  /\ position_at(text, tokens[i - 1].start_byte).line
                    < position_at(text, tokens[i - 1].end_byte).line
              /\ position_at(text, tokens[i].start_byte).line
                    = position_at(text, tokens[i - 1].end_byte).line

\* Where no token follows a comment of several lines on its last line, the
\* deltas decode to the true positions.
DeltasDecodeElsewhere ==
    (semantic # None /\ ~TokenAfterMultilineComment) =>
        Decoded(semantic[1].semantic_tokens, 1, 0, 0)
            = TruePositions(semantic[1].text, semantic[1].tokens, 1)

\* C30: compute_syntax_diagnostics returns a diagnostic list and never
\* aborts, whatever the text: neither the cut of an error node's first line
\* to 40 bytes nor the slice of an error node of no width splits a
\* character of several bytes.
C30_SyntaxDiagnosticsNeverAbort ==
    syntax # None => syntax[1].result # None

\* The flagged node of the tree.
Flagged == syntax[1].tree[2]

\* The call does not abort when the error node has a width and its first
\* line has at most 40 bytes.
ShortErrorNodeNeverAborts ==
    (/\ syntax # None
     /\ Flagged.end_byte > Flagged.start_byte
     /\ len(first_line(str_slice(syntax[1].text, Flagged.start_byte,
                                  Flagged.end_byte))) <= MaxSnippetBytes)
        => syntax[1].result # None

\* The call does not abort on a missing token.
MissingNodeNeverAborts ==
    (syntax # None /\ Flagged.is_missing) => syntax[1].result # None

\* The cut to 40 bytes does not abort: an error node with a width.
CutNeverAborts ==
    (syntax # None /\ Flagged.end_byte > Flagged.start_byte)
        => syntax[1].result # None

\* The slice of an error node of no width does not abort.
ZeroWidthSliceNeverAborts ==
    (syntax # None /\ Flagged.end_byte = Flagged.start_byte)
        => syntax[1].result # None

\* The entry derived from the text alone, None when the text has neither
\* an inherit assignment nor a table assignment named after the file stem.
DerivedEntry(file_path, content) ==
    IF content.inherit # None
    THEN Some([file_path |-> file_path,
               script_path |-> extract_script_path(file_path),
               name |-> content.inherit[1].class_name,
               parent_path |-> Some(normalize_script_path(content.inherit[1].parent_path)),
               parent |-> None, children |-> <<>>,
               members |-> content.inherit[1].members])
    ELSE IF content.table # None /\ content.table[1].name = file_stem(file_path)
    THEN Some([file_path |-> file_path,
               script_path |-> extract_script_path(file_path),
               name |-> content.table[1].name,
               parent_path |-> None, parent |-> None, children |-> <<>>,
               members |-> content.table[1].members])
    ELSE None

\* After the step, the index holds for the file what the text alone gives.
EntryIsDerived(file_path, content) ==
    LET script_path == extract_script_path(file_path)
        entry == DerivedEntry(file_path, content)
    IN  IF entry = None THEN script_path \notin DOMAIN files'
        ELSE script_path \in DOMAIN files' /\ files'[script_path] = entry[1]

\* C26: after index_file(f, t) for a file under scripts/, the entry under
\* f's script path is the one derived from t alone; when t has neither an
\* inherit assignment nor a table assignment named after the file stem, the
\* index holds no entry for f.
C26_ReindexReplacesEntry ==
    [][\A in \in IndexInputs :
            (index_file(in[1], in[2]) /\ extract_script_path(in[1]) # <<>>)
                => EntryIsDerived(in[1], in[2])]_vars

\* What holds of the code: a text with an inherit assignment or a table
\* named after the stem replaces the entry by the one derived from it.
ReindexReplacesEntryOfClassOrTable ==
    [][\A in \in IndexInputs :
            (/\ index_file(in[1], in[2])
             /\ extract_script_path(in[1]) # <<>>
             /\ DerivedEntry(in[1], in[2]) # None)
                => EntryIsDerived(in[1], in[2])]_vars

\* ... and a text with neither leaves the entries as they were.
ReindexWithoutClassKeepsEntries ==
    [][\A in \in IndexInputs :
            (/\ index_file(in[1], in[2])
             /\ extract_script_path(in[1]) # <<>>
             /\ DerivedEntry(in[1], in[2]) = None)
                => files' = files]_vars

\* The top-level function declarations of the text: child index -> name.
TopLevelFunctions(root) ==
    [i \in {j \in 1..Len(root.children) :
                root.children[j].kind = "function_declaration"}
        |-> root.children[i].children[2].text]

\* The references of the run that stand inside the body of a top-level
\* function declaration and name a top-level function declaration of the
\* text, no local or parameter of that name being declared anywhere.
FunctionReferences ==
    LET fns == TopLevelFunctions(resolver[1].text)
    IN  {c \in Checked :
            /\ Len(c.at) >= 2
            /\ c.at[1] \in DOMAIN fns
            /\ \E j \in DOMAIN fns : fns[j] = c.name
            /\ \A d \in Declared : d.name # c.name}

\* C29: a reference inside a function body to a top-level function
\* declaration of the same file is never reported as undeclared, whether
\* the declaration stands before or after the referencing function.
C29_TopLevelFunctionsAlwaysDeclared ==
    resolver # None =>
        \A c \in FunctionReferences :
            DiagnosticsAt("Undeclared variable", c.at) = {}

\* What holds of the code: the reference is not reported when the
\* declaration it names is the referencing function or stands before it.
FunctionsDeclaredBeforeAreDeclared ==
    resolver # None =>
        \A c \in FunctionReferences :
            (\E j \in DOMAIN TopLevelFunctions(resolver[1].text) :
                /\ TopLevelFunctions(resolver[1].text)[j] = c.name
                /\ j <= c.at[1])
                => DiagnosticsAt("Undeclared variable", c.at) = {}

\* A reference to a function declared before the referencing function.
BackwardFunctionReference ==
    /\ resolver # None
    /\ \E c \in FunctionReferences :
            \E j \in DOMAIN TopLevelFunctions(resolver[1].text) :
                TopLevelFunctions(resolver[1].text)[j] = c.name /\ j < c.at[1]

\* C22: a didChange handler writes the new text into the store before it
\* publishes, and the diagnostics it publishes are those of the text it
\* wrote, not of a text another handler wrote.
C22_ChangePublishesWhatItWrote ==
    \A i \in 1..Len(client) :
        LET p == client[i]
            task == tasks[p.handler]
        IN  task.method = "did_change" =>
                /\ task.text # None
                /\ task.current = task.text
                /\ p.uri = task.uri
                /\ p.diagnostics = Diagnostics(task.text[1])

\* A didChange handler has published while the store held the text of
\* another handler, whose diagnostics are others.
C22_Witness ==
    \E i \in 1..Len(client) :
        /\ tasks[client[i].handler].method = "did_change"
        /\ client[i].store # None
        /\ client[i].store # tasks[client[i].handler].text
        /\ Diagnostics(client[i].store[1])
                # Diagnostics(tasks[client[i].handler].text[1])

\* Every write of did_change puts the handler's text into the store.
ChangeWritesBeforePublishing ==
    [][\A h \in 1..Len(tasks) :
            (did_change(h) /\ tasks'[h].pc = "publish")
                => documents'[tasks[h].uri] = tasks[h].text[1]]_vars

\* All handlers have finished.
AllDone == \A h \in 1..Len(tasks) : tasks[h].pc = "done"

\* The index in client of the publication sent last for the uri, 0 when
\* there is none.
LastPublished(uri) ==
    LET ps == {i \in 1..Len(client) : client[i].uri = uri}
    IN  IF ps = {} THEN 0 ELSE CHOOSE i \in ps : \A j \in ps : j <= i

\* At least two didChange handlers have written the document, and none
\* has closed it.
SeveralChanges(uri) ==
    /\ Cardinality({h \in 1..Len(tasks) :
            /\ tasks[h].method = "did_change"
            /\ tasks[h].uri = uri
            /\ tasks[h].current # None}) >= 2
    /\ \A h \in 1..Len(tasks) :
            tasks[h].uri = uri => tasks[h].method # "did_close"

\* C27: when several didChange handlers for one document have run
\* concurrently and all have finished, the diagnostics published last for
\* the document are those of the text the store holds.
C27_LastPublishedMatchesStore ==
    AllDone =>
        \A uri \in DOMAIN documents :
            SeveralChanges(uri) =>
                client[LastPublished(uri)].diagnostics = Diagnostics(documents[uri])

\* The same of every document for which something was published, whatever
\* handlers have run.
LastPublishedMatchesStoreAlways ==
    AllDone =>
        \A uri \in DOMAIN documents :
            LastPublished(uri) # 0 =>
                client[LastPublished(uri)].diagnostics = Diagnostics(documents[uri])

\* With two handlers at most per document, of which no more than one is
\* not a didOpen, the publication sent last is that of the text in the
\* store.
LastPublishedMatchesStoreOfOneChange ==
    AllDone =>
        \A uri \in DOMAIN documents :
            (/\ LastPublished(uri) # 0
             /\ Cardinality({h \in 1..Len(tasks) : tasks[h].uri = uri}) <= 2
             /\ Cardinality({h \in 1..Len(tasks) :
                    tasks[h].uri = uri /\ tasks[h].method # "did_open"}) <= 1)
                => client[LastPublished(uri)].diagnostics = Diagnostics(documents[uri])

\* What holds of the code: the texts reach the store in the order in which
\* the handlers were started, so that the store ends with the text of the
\* last handler that wrote.
StoreHoldsLastWriter ==
    AllDone =>
        \A uri \in DOMAIN documents :
            LET ws == {h \in 1..Len(tasks) :
                        /\ tasks[h].uri = uri
                        /\ \/ tasks[h].method = "did_open"
                           \/ tasks[h].method = "did_change" /\ tasks[h].current # None}
            IN  ws # {} /\ documents[uri] = tasks[CHOOSE h \in ws : \A g \in ws : g <= h].text[1]

====
